---- MODULE Spec2Model ----
(***************************************************************************)
(* A model of the session-file write arbitration, the session stores, the  *)
(* monitor manager and the unifying poll monitor of cc-sdk-chat (api/).    *)
(*                                                                         *)
(* A JSONL line that parses is a record of the provenance fields the       *)
(* arbitration reads (originalSession, unified_at, source, sessionId).     *)
(* A field holds Absent (the key is missing), Empty (the key is there and  *)
(* its value is falsy: "" or null) or a value.                             *)
(***************************************************************************)
EXTENDS Integers, Sequences, FiniteSets, TLC

VARIABLES
    \* ---- write arbitration (session_interceptor, cleanup_unified,
    \*      block_unification, isolated_session_manager) ----
    arb_op,              \* the last arbitration call: "none", "classify", "intercept"
    data,                \* the record that call was given
    file_path,           \* the path intercept_and_redirect was given
    verdict,             \* what each classifier answered for data
    flagged,             \* should_block_write(file_path, data)
    ret,                 \* what intercept_and_redirect returned
    terminal_dir,        \* ~/.claude/projects/-Users-2a--claude: file stem -> lines
    terminal_exists,     \* the stems whose file exists in that directory
    blocked_writes,      \* SessionInterceptor.blocked_writes
    redirected_sessions  \* SessionInterceptor.redirected_sessions

arbVars == <<arb_op, data, file_path, verdict, flagged, ret, terminal_dir,
             terminal_exists, blocked_writes, redirected_sessions>>

VARIABLES
    \* ---- the session stores (session_manager, isolated_session_manager,
    \*      block_unification) over the same session files ----
    files,               \* session id -> the lines of <session id>.jsonl
    on_disk,             \* the session ids whose file exists
    backup_file,         \* UnificationBlocker.backup_file
    sessions,            \* SessionManager.sessions
    active_sessions,     \* IsolatedSessionManager.active_sessions
    session_locks,       \* IsolatedSessionManager.session_locks (its keys)
    now,                 \* the clock datetime.now() reads
    st_op                \* the last store call: name, arguments, result

storeVars == <<files, on_disk, backup_file, sessions, active_sessions,
               session_locks, now, st_op>>

VARIABLES
    \* ---- MonitorManager (core/monitor_manager) and the asyncio tasks and
    \*      calls that run its coroutines ----
    is_running,          \* MonitorManager.is_running
    status,              \* health_status["status"]
    errors,              \* len(health_status["errors"])
    restarts,            \* health_status["restarts"]
    restart_count,       \* MonitorManager.restart_count
    since_restart,       \* seconds since last_restart_time, NoTime for None
    monitor,             \* MonitorManager.monitor is an instance
    monitor_task,        \* MonitorManager.monitor_task: a task id, 0 for None
    health_check_task,   \* MonitorManager.health_check_task: a task id, 0 for None
    mon,                 \* the _run_monitor tasks: id -> state
    health,              \* the _health_check_loop tasks: id -> state
    calls,               \* the stop() and restart() calls in flight
    restart_ret,         \* what the restart() entered in the last step did
    start_kept           \* a start() returned True and no stop() or restart()
                         \* was invoked since it began

mgrVars == <<is_running, status, errors, restarts, restart_count, since_restart,
             monitor, monitor_task, health_check_task, mon, health, calls,
             restart_ret, start_kept>>

VARIABLES
    \* ---- UnifiedSessionMonitor (monitor_unified_session) and the terminal
    \*      session file it polls ----
    source_file,         \* the lines of the monitored .jsonl file
    unified_file,        \* the lines of the unified file
    last_processed,      \* last_processed.get(name, 0)
    current_size,        \* the st_size the poll in progress has read
    poll_pc              \* where monitor_and_unify is in its loop

umVars == <<source_file, unified_file, last_processed, current_size, poll_pc>>

VARIABLES
    \* ---- a sweep of a session file while other processes append to it ----
    sw_pc,               \* "idle", "read" (file read, not yet rewritten), "done"
    sw_kind,             \* which sweep runs
    sw_session,          \* the session whose file it sweeps
    sw_lines,            \* the lines the sweep read
    sw_late              \* the lines appended to the file since the sweep read it

swVars == <<sw_pc, sw_kind, sw_session, sw_lines, sw_late>>

VARIABLES
    \* ---- the files cleanup_unified writes beside the web session file ----
    cleanup_backup,      \* the last <stem>_backup_<timestamp>.jsonl
    terminal_entries     \* the last terminal_entries_<timestamp>.jsonl

cuVars == <<cleanup_backup, terminal_entries>>

VARIABLES
    \* ---- the reads of session files and what they returned ----
    rd_op,               \* the last read: its name and the session file it read
    rd_result,           \* the list it returned
    rd_count,            \* the reads made
    rd_now,              \* the store clock at the last read
    rd_prev              \* the read before the last: op, result, now

rdVars == <<rd_op, rd_result, rd_count, rd_now, rd_prev>>

VARIABLES
    \* ---- one /api/chat response stream (server.send_message.generate) ----
    sse_pc,              \* "idle", "open", "raised" (in the except), "closed"
    handler_pc,          \* ClaudeHandler.send_message: "new", "begun", "ended"
    sse_events,          \* the events sent so far
    chat_session_id,     \* chat_message.session_id
    real_session_id,     \* generate's real_session_id
    sse_raised           \* an exception was raised while the stream was made

sseVars == <<sse_pc, handler_pc, sse_events, chat_session_id, real_session_id,
             sse_raised>>

VARIABLES
    \* ---- the session registries of the API and its DELETE handlers ----
    clients,             \* ClaudeHandler.clients (its keys)
    handler_sessions,    \* ClaudeHandler.active_sessions, session_configs and
                         \* session_histories (their keys)
    sessions_cache,      \* session_routes.sessions_cache: session id -> user_id
    user_sessions,       \* session_routes.user_sessions: user_id -> session ids
    issued,              \* the session ids create_session has made tokens for
    api_response,        \* the last DELETE: route, session_id, token, status
    api_calls            \* the DELETE requests made

delVars == <<clients, handler_sessions, sessions_cache, user_sessions, issued,
             api_response, api_calls>>

VARIABLES
    \* ---- ClaudeHandler: its registries and the calls in flight ----
    ch_clients,          \* ClaudeHandler.clients: session id -> SDK client
    ch_active,           \* ClaudeHandler.active_sessions (its keys)
    ch_configs,          \* ClaudeHandler.session_configs: session id -> config
    ch_histories,        \* ClaudeHandler.session_histories: session id -> total_tokens
    connected,           \* the SDK clients that are connected
    made,                \* the SDK clients constructed so far
    ch_calls,            \* the calls suspended at an await
    ch_done              \* the call that has just ended, and how

chVars == <<ch_clients, ch_active, ch_configs, ch_histories, connected, made,
            ch_calls, ch_done>>

VARIABLES
    \* ---- ClaudeHandler.send_message: the text buffer of one call ----
    text_buffer,         \* the text blocks held back (their numbers, in order)
    buffer_size,         \* the characters held back
    received,            \* how many text blocks the SDK has delivered
    buf_msgs,            \* how many blocks of any kind the SDK has delivered
    yielded,             \* the responses send_message has yielded
    buf_pc               \* "receiving" or "ended"

bufVars == <<text_buffer, buffer_size, received, buf_msgs, yielded, buf_pc>>

VARIABLES
    \* ---- routes/realtime_routes.monitor_latest_jsonl and the files it polls ----
    rt_files,            \* file name -> the lines of the file
    rt_latest,           \* the file with the greatest st_mtime
    last_file,           \* the generator's last_file
    last_content,        \* the generator's last_content
    last_size,           \* the generator's last_size
    rt_emitted,          \* the lines whose text was sent as text_chunk events
    rt_synced            \* the generator has polled since the last append

rtVars == <<rt_files, rt_latest, last_file, last_content, last_size, rt_emitted,
            rt_synced>>

apiVars == <<sseVars, delVars, chVars, bufVars, rtVars>>

vars == <<arbVars, storeVars, mgrVars, umVars, swVars, cuVars, rdVars, apiVars>>

\* The variables each part of the program leaves alone
notArb == <<storeVars, mgrVars, umVars, swVars, cuVars, rdVars, apiVars>>
notStore == <<arbVars, mgrVars, umVars, swVars, cuVars, rdVars, apiVars>>
notMgr == <<arbVars, storeVars, umVars, swVars, cuVars, rdVars, apiVars>>
notUm == <<arbVars, storeVars, mgrVars, swVars, cuVars, rdVars, apiVars>>
notSweep == <<arbVars, mgrVars, umVars, cuVars, rdVars, apiVars>>
notApi == <<arbVars, storeVars, mgrVars, umVars, swVars, cuVars, rdVars, chVars,
            bufVars, rtVars>>
notMgrUm == <<arbVars, storeVars, swVars, cuVars, rdVars, apiVars>>
notHandler == <<arbVars, storeVars, mgrVars, umVars, swVars, cuVars, rdVars, sseVars, delVars,
                bufVars, rtVars>>
notBuffer == <<arbVars, storeVars, mgrVars, umVars, swVars, cuVars, rdVars, sseVars, delVars,
               chVars, rtVars>>
notRealtime == <<arbVars, storeVars, mgrVars, umVars, swVars, cuVars, rdVars, sseVars, delVars,
                 chVars, bufVars>>

----------------------------------------------------------------------------
(* Values *)

Absent == "<absent>"
Empty == ""

WEB_SESSION == "00000000-0000-0000-0000-000000000001"
TERMINAL_SESSION == "4b5f9b35-31b7-4789-88a1-390ecdf21559"
UNIFIED_WEB_ID == WEB_SESSION

\* dict.get(key) is truthy: the key is there and its value is not falsy.
PyTruthy(v) == v # Absent /\ v # Empty

\* key in dict
HasKey(v) == v # Absent

\* Session ids a terminal record may name, as they are written in the field:
\* a bare stem, or a path to the session file.
T1 == "t1"
T2Path == "proj/t2.jsonl"
T2 == "t2"

\* session_id.split("/")[-1].replace(".jsonl", "")
CleanId(session_id) ==
    CASE session_id = T2Path -> T2
      [] OTHER -> session_id

TermStems == {T1, T2, TERMINAL_SESSION}

OriginalSessions == {Absent, Empty, T1, T2Path}
UnifiedAts == {Absent, "2025-01-01T00:00:00"}
Sources == {Absent, "web", "claude_code_auto"}
SessionIds == {Absent, WEB_SESSION, TERMINAL_SESSION}

\* "claude_code_auto" in str(source), over Sources
ContainsAuto(source) == source = "claude_code_auto"

Records == [originalSession : OriginalSessions, unified_at : UnifiedAts,
            source : Sources, sessionId : SessionIds]

WebFilePath == "/Users/2a/.claude/projects/-Users-2a--claude-cc-sdk-chat-api/00000000-0000-0000-0000-000000000001.jsonl"
OtherFilePath == "/Users/2a/.claude/projects/-Users-2a--claude/t1.jsonl"
FilePaths == {WebFilePath, OtherFilePath}

\* UNIFIED_WEB_ID in file_path
ContainsWebId(path) == path = WebFilePath

----------------------------------------------------------------------------
(* The classifiers *)

\* SessionInterceptor.is_terminal_session
is_terminal_session(session_data) ==
    \/ PyTruthy(session_data.originalSession)
    \/ session_data.source = "claude_code_auto"
    \/ PyTruthy(session_data.unified_at)
    \/ (PyTruthy(session_data.sessionId) /\ session_data.sessionId # UNIFIED_WEB_ID)

\* cleanup_unified.is_terminal_entry
is_terminal_entry(entry) ==
    \/ PyTruthy(entry.originalSession)
    \/ PyTruthy(entry.unified_at)
    \/ entry.source = "claude_code_auto"
    \/ /\ PyTruthy(entry.sessionId)
       /\ entry.sessionId # UNIFIED_WEB_ID
       /\ (HasKey(entry.originalSession) \/ HasKey(entry.unified_at) \/ HasKey(entry.source))

\* UnificationBlocker.is_from_blocked_source: exists is the set of stems whose
\* file exists in the blocked directory; the lookup uses the field as written.
is_from_blocked_source(message_data, exists) ==
    \/ (PyTruthy(message_data.originalSession) /\ message_data.originalSession \in exists)
    \/ PyTruthy(message_data.unified_at)
    \/ message_data.source = "claude_code_auto"

\* IsolatedSessionManager._is_unification_attempt: any() over a list whose
\* first two elements are the key names themselves, not lookups of them.
is_unification_attempt(message) ==
    \/ PyTruthy("originalSession")
    \/ PyTruthy("unified_at")
    \/ (HasKey(message.source) /\ ContainsAuto(message.source))

\* SessionInterceptor.should_block_write
should_block_write(path, d) ==
    ContainsWebId(path) /\ is_terminal_session(d)

\* SessionInterceptor.redirect_write: the session the write is redirected to,
\* Absent for "return None".
redirect_target(d) ==
    IF PyTruthy(d.originalSession) THEN d.originalSession
    ELSE IF PyTruthy(d.sessionId) /\ d.sessionId # UNIFIED_WEB_ID THEN d.sessionId
    ELSE Absent

\* SessionInterceptor.get_terminal_session_file
get_terminal_session_file(session_id) == CleanId(session_id)

----------------------------------------------------------------------------
(* Arbitration: bounds, initial state, actions *)

MaxRedirects == 1

RedirectedLines ==
    LET Sum[S \in SUBSET TermStems] ==
            IF S = {} THEN 0
            ELSE LET s == CHOOSE x \in S : TRUE
                 IN Len(terminal_dir[s]) + Sum[S \ {s}]
    IN Sum[TermStems]

NoRecord == [originalSession |-> Absent, unified_at |-> Absent,
             source |-> Absent, sessionId |-> Absent]

NoVerdict == [interceptor |-> FALSE, cleanup |-> FALSE, blocker |-> FALSE, isolated |-> FALSE]

ArbStart ==
    /\ arb_op = "none"
    /\ data = NoRecord
    /\ file_path = WebFilePath
    /\ verdict = NoVerdict
    /\ flagged = FALSE
    /\ ret = FALSE
    /\ terminal_dir = [s \in TermStems |-> <<>>]
    /\ terminal_exists \in {{}, {T1}}
    /\ blocked_writes = 0
    /\ redirected_sessions = {}

\* Each classifier applied to a record, with the files that exist now.
Classify(d) ==
    /\ arb_op' = "classify"
    /\ data' = d
    /\ verdict' = [interceptor |-> is_terminal_session(d),
                   cleanup |-> is_terminal_entry(d),
                   blocker |-> is_from_blocked_source(d, terminal_exists),
                   isolated |-> is_unification_attempt(d)]
    /\ file_path' = WebFilePath
    /\ flagged' = FALSE
    /\ ret' = FALSE
    /\ UNCHANGED <<terminal_dir, terminal_exists, blocked_writes, redirected_sessions>>
    /\ UNCHANGED notArb

\* SessionInterceptor.intercept_and_redirect(path, d), with redirect_write and
\* write_to_correct_file.
intercept_and_redirect(path, d) ==
    LET target == redirect_target(d)
        stem == get_terminal_session_file(target)
    IN /\ arb_op' = "intercept"
       /\ data' = d
       /\ file_path' = path
       /\ flagged' = should_block_write(path, d)
       /\ verdict' = NoVerdict
       /\ IF should_block_write(path, d) /\ target # Absent
          THEN /\ RedirectedLines < MaxRedirects
               /\ redirected_sessions' = redirected_sessions \cup {target}
               /\ blocked_writes' = blocked_writes + 1
               /\ terminal_dir' = [terminal_dir EXCEPT ![stem] = Append(@, d)]
               /\ terminal_exists' = terminal_exists \cup {stem}
               /\ ret' = TRUE
          ELSE /\ ret' = FALSE
               /\ UNCHANGED <<terminal_dir, terminal_exists, blocked_writes,
                              redirected_sessions>>
       /\ UNCHANGED notArb

----------------------------------------------------------------------------
(* The session stores: lines, files, registries *)

NoTime == 0 - 1
OTHER_SESSION == "11111111-2222-3333-4444-555555555555"
StoreIds == {WEB_SESSION, TERMINAL_SESSION, OTHER_SESSION}
PROTECTED_SESSIONS == {WEB_SESSION, TERMINAL_SESSION}

\* A line of a session file. kind "json": the line parses to an object with
\* these fields; "bad": json.loads raises JSONDecodeError; "blank": only
\* whitespace. timestamp is the field SessionManager.write_message adds,
\* processed_at stands for the _isolated, _session_state and _processed_at
\* fields IsolatedSessionManager.process_message adds. form is "py" when
\* the text of the line is what json.dumps(obj, ensure_ascii=False) gives for
\* its object, "other" for another text of the same object (other
\* separators or escapes, as other programs write them). type is the
\* record's "type"; a record with a type has a "message" of that role whose
\* content is the line's content.
NativeLine(c) ==
    [kind |-> "json", content |-> c, originalSession |-> Absent,
     unified_at |-> Absent, source |-> Absent, sessionId |-> Absent,
     timestamp |-> NoTime, processed_at |-> NoTime, form |-> "py",
     type |-> Absent]

BadLine == [NativeLine("{not json") EXCEPT !.kind = "bad"]
BlankLine == [NativeLine(" ") EXCEPT !.kind = "blank"]

Hi == NativeLine("hi")
Bye == [NativeLine("bye") EXCEPT !.sessionId = WEB_SESSION, !.form = "other"]
HeyFromT1 == [NativeLine("hey") EXCEPT !.originalSession = T1]
HeyUnified == [NativeLine("hey") EXCEPT !.unified_at = "2025-01-01T00:00:00"]
HeyAuto == [NativeLine("hey") EXCEPT !.source = "claude_code_auto"]
HeyFromTerminal == [NativeLine("hey") EXCEPT !.originalSession = TERMINAL_SESSION]
HeyEmptyOrigin == [NativeLine("hey") EXCEPT !.originalSession = Empty]

\* What a session file may hold when the stores start, and what callers write.
InitLines == {Hi, Bye, HeyFromT1, HeyUnified, HeyAuto, BadLine, BlankLine}
Messages == {Hi, HeyFromT1, HeyUnified, HeyAuto, HeyFromTerminal, HeyEmptyOrigin}

MaxInitLines == 2
MaxFileLen == 3
MaxClock == 2

SeqsUpTo(S, n) == UNION {[1..k -> S] : k \in 0..n}

\* SessionManager.is_protected, IsolatedSessionManager.is_protected_session
is_protected(session_id) == session_id \in PROTECTED_SESSIONS

\* SessionManager: msg.get("originalSession") or msg.get("unified_at")
is_unified_message(msg) ==
    PyTruthy(msg.originalSession) \/ PyTruthy(msg.unified_at)

\* A write_message guard that tests originalSession alone
sm_blocks_origin_only(session_id, message) ==
    is_protected(session_id) /\ PyTruthy(message.originalSession)

\* SessionManager.write_message: the write is refused
sm_blocks(session_id, message) ==
    is_protected(session_id) /\ is_unified_message(message)

\* IsolatedSessionManager.process_message: the status is "blocked".
\* message.get("originalSession", "") is "" for a missing key.
ism_blocks(session_id, message) ==
    /\ is_unification_attempt(message)
    /\ (is_protected(session_id) \/ is_protected(message.originalSession))

\* A write at the head of the file
PrependLine(session_id, line) ==
    /\ files' = [files EXCEPT ![session_id] = <<line>> \o @]
    /\ on_disk' = on_disk \cup {session_id}

\* open(session_file, 'a').write(line): the file is created when missing
AppendLine(session_id, line) ==
    /\ files' = [files EXCEPT ![session_id] = Append(@, line)]
    /\ on_disk' = on_disk \cup {session_id}

NoOp == [name |-> "none", session_id |-> Absent, message |-> Hi, result |-> 0]
Call(name, session_id, message, result) ==
    [name |-> name, session_id |-> session_id, message |-> message, result |-> result]

\* True and False as the results of a call, beside the counts sweeps return
RTrue == 1
RFalse == 0

StoreStart ==
    /\ files \in [StoreIds -> {<<>>}] 
    /\ on_disk = {}
    /\ backup_file = <<>>
    /\ sessions = [s \in PROTECTED_SESSIONS |-> [message_count |-> 0, last_activity |-> 0]]
    /\ active_sessions = [s \in PROTECTED_SESSIONS |-> [message_count |-> 0, last_access |-> 0]]
    /\ session_locks = {}
    /\ now = 0
    /\ st_op = NoOp

\* The store specification starts from session files other processes have
\* written: the web file holds any lines, the others do not exist yet.
StoreStartFiles ==
    /\ \E web \in SeqsUpTo(InitLines, MaxInitLines) :
          /\ files = [s \in StoreIds |-> IF s = WEB_SESSION THEN web ELSE <<>>]
          /\ on_disk = IF web = <<>> THEN {} ELSE {WEB_SESSION}
    /\ backup_file = <<>>
    /\ sessions = [s \in PROTECTED_SESSIONS |-> [message_count |-> 0, last_activity |-> 0]]
    /\ active_sessions = [s \in PROTECTED_SESSIONS |-> [message_count |-> 0, last_access |-> 0]]
    /\ session_locks = {}
    /\ now = 0
    /\ st_op = NoOp

\* SessionManager.write_message
sm_write_message(session_id, message) ==
    /\ now < MaxClock
    /\ now' = now + 1
    /\ IF sm_blocks(session_id, message)
       THEN /\ st_op' = Call("sm_write_message", session_id, message, RFalse)
            /\ UNCHANGED <<files, on_disk, sessions>>
       ELSE LET stamped == IF message.timestamp = NoTime
                           THEN [message EXCEPT !.timestamp = now']
                           ELSE message
            IN /\ Len(files[session_id]) < MaxFileLen
               /\ AppendLine(session_id, stamped)
               /\ sessions' = IF session_id \in DOMAIN sessions
                              THEN [sessions EXCEPT ![session_id] =
                                       [message_count |-> @.message_count + 1,
                                        last_activity |-> now']]
                              ELSE sessions
               /\ st_op' = Call("sm_write_message", session_id, message, RTrue)
    /\ UNCHANGED <<backup_file, active_sessions, session_locks>>
    /\ UNCHANGED notStore

\* IsolatedSessionManager.write_message, with process_message
ism_write_message(session_id, message) ==
    /\ now < MaxClock
    /\ now' = now + 1
    /\ IF ism_blocks(session_id, message)
       THEN /\ st_op' = Call("ism_write_message", session_id, message, RFalse)
            /\ UNCHANGED <<files, on_disk, active_sessions, session_locks>>
       ELSE LET old == IF session_id \in DOMAIN active_sessions
                       THEN active_sessions[session_id]
                       ELSE [message_count |-> 0, last_access |-> now']
                processed == [message EXCEPT !.processed_at = now']
            IN /\ Len(files[session_id]) < MaxFileLen
               /\ session_locks' = session_locks \cup {session_id}
               /\ active_sessions' =
                     [s \in DOMAIN active_sessions \cup {session_id} |->
                        IF s = session_id
                        THEN [message_count |-> old.message_count + 1,
                              last_access |-> now']
                        ELSE active_sessions[s]]
               /\ AppendLine(session_id, processed)
               /\ st_op' = Call("ism_write_message", session_id, message, RTrue)
    /\ UNCHANGED <<backup_file, sessions>>
    /\ UNCHANGED notStore

----------------------------------------------------------------------------
(* Sweeps *)

\* SessionManager.clean_unified_messages: the lines kept (clean_messages)
sm_clean_lines(lines) ==
    SelectSeq(lines, LAMBDA l : /\ l.kind # "blank"
                                /\ (l.kind = "json" => ~is_unified_message(l)))

\* SessionManager.clean_unified_messages: removed_count
sm_removed_count(lines) ==
    Len(SelectSeq(lines, LAMBDA l : l.kind = "json" /\ is_unified_message(l)))

\* SessionManager.clean_unified_messages
clean_unified_messages(session_id) ==
    /\ now < MaxClock
    /\ now' = now + 1
    /\ IF is_protected(session_id) /\ session_id \in on_disk
       THEN LET removed == sm_removed_count(files[session_id])
            IN /\ files' = IF removed > 0
                           THEN [files EXCEPT ![session_id] = sm_clean_lines(@)]
                           ELSE files
               /\ st_op' = Call("clean_unified_messages", session_id, Hi, removed)
       ELSE /\ UNCHANGED files
            /\ st_op' = Call("clean_unified_messages", session_id, Hi, 0)
    /\ UNCHANGED <<on_disk, backup_file, sessions, active_sessions, session_locks>>
    /\ UNCHANGED notStore

\* UnificationBlocker.clean_file: the lines kept (clean_lines)
blocker_clean_lines(lines, exists) ==
    SelectSeq(lines, LAMBDA l : /\ l.kind # "blank"
                                /\ (l.kind = "json" => ~is_from_blocked_source(l, exists)))

\* UnificationBlocker.clean_file: removed_count
blocker_removed_count(lines, exists) ==
    Len(SelectSeq(lines, LAMBDA l : l.kind = "json" /\ is_from_blocked_source(l, exists)))

\* UnificationBlocker.clean_file
clean_file ==
    /\ now < MaxClock
    /\ now' = now + 1
    /\ IF WEB_SESSION \in on_disk
       THEN LET removed == blocker_removed_count(files[WEB_SESSION], terminal_exists)
            IN /\ files' = IF removed > 0
                           THEN [files EXCEPT ![WEB_SESSION] =
                                    blocker_clean_lines(@, terminal_exists)]
                           ELSE files
               /\ backup_file' = IF removed > 0 THEN files[WEB_SESSION] ELSE backup_file
               /\ st_op' = Call("clean_file", WEB_SESSION, Hi, removed)
       ELSE /\ UNCHANGED <<files, backup_file>>
            /\ st_op' = Call("clean_file", WEB_SESSION, Hi, 0)
    /\ UNCHANGED <<on_disk, sessions, active_sessions, session_locks>>
    /\ UNCHANGED notStore

\* IsolatedSessionManager.monitor_unification_attempts, one session of one
\* tick: the file is rewritten when its last line parses and is classified
\* as a unification attempt and every line parses; json.loads raising on any
\* line leaves the file as it is.
ism_tick_file(lines) ==
    IF /\ lines # <<>>
       /\ lines[Len(lines)].kind = "json"
       /\ is_unification_attempt(lines[Len(lines)])
       /\ \A i \in 1..Len(lines) : lines[i].kind = "json"
    THEN SelectSeq(lines, LAMBDA l : ~is_unification_attempt(l))
    ELSE lines

\* IsolatedSessionManager.monitor_unification_attempts: one pass of its loop
\* over the protected sessions
monitor_unification_attempts ==
    /\ now < MaxClock
    /\ now' = now + 1
    /\ files' = [s \in StoreIds |->
                    IF s \in PROTECTED_SESSIONS /\ s \in on_disk
                    THEN ism_tick_file(files[s])
                    ELSE files[s]]
    /\ st_op' = Call("monitor_unification_attempts", Absent, Hi, 0)
    /\ UNCHANGED <<on_disk, backup_file, sessions, active_sessions, session_locks>>
    /\ UNCHANGED notStore

----------------------------------------------------------------------------
(* cleanup_unified: the one-shot cleaning of the web session file *)

\* What cleanup_unified_file returns when the file does not exist
RNone == 0 - 1

CuStart ==
    /\ cleanup_backup = << >>
    /\ terminal_entries = << >>

\* json.dump(entry, f, ensure_ascii=False) of each entry, one per line
dump_entries(entries) == [i \in 1..Len(entries) |-> [entries[i] EXCEPT !.form = "py"]]

\* all_entries: the lines json.loads accepts; blank lines and lines it
\* rejects are left out
parsed_entries(lines) == SelectSeq(lines, LAMBDA l : l.kind = "json")

\* cleanup_unified_file
cleanup_unified_file ==
    /\ now < MaxClock
    /\ now' = now + 1
    /\ IF WEB_SESSION \notin on_disk
       THEN /\ st_op' = Call("cleanup_unified_file", WEB_SESSION, Hi, RNone)
            /\ UNCHANGED <<files, cleanup_backup, terminal_entries>>
       ELSE LET all_entries == parsed_entries(files[WEB_SESSION])
                terminal == SelectSeq(all_entries, is_terminal_entry)
                web_entries == SelectSeq(all_entries, LAMBDA e : ~is_terminal_entry(e))
            IN /\ cleanup_backup' = files[WEB_SESSION]
               /\ files' = IF terminal # << >>
                           THEN [files EXCEPT ![WEB_SESSION] = dump_entries(web_entries)]
                           ELSE files
               /\ terminal_entries' = IF terminal # << >>
                                      THEN dump_entries(terminal) ELSE terminal_entries
               /\ st_op' = Call("cleanup_unified_file", WEB_SESSION, Hi, Len(terminal))
    /\ UNCHANGED <<on_disk, backup_file, sessions, active_sessions, session_locks>>
    /\ UNCHANGED <<arbVars, mgrVars, umVars, swVars, rdVars, apiVars>>

----------------------------------------------------------------------------
(* Reads of a session file *)

MaxReads == 2

\* A record of the conversation as the Claude CLI writes it
Ask == [NativeLine("ask") EXCEPT !.type = "user", !.form = "other"]

ReadMessages == {Hi, HeyFromT1}
ReadIds == {WEB_SESSION, OTHER_SESSION}

\* The session files when the reads start
ReadStartWebFiles == {<< >>, <<Ask, BadLine>>, <<HeyFromT1, BlankLine>>}
ReadStartOtherFiles == {<< >>, <<Ask, BadLine, Ask>>}

NoRead == [name |-> "none", session_id |-> Absent]

RdStart ==
    /\ rd_op = NoRead
    /\ rd_result = << >>
    /\ rd_count = 0
    /\ rd_now = 0
    /\ rd_prev = [op |-> NoRead, result |-> << >>, now |-> 0]

\* json.loads(line): the object, whatever the text that wrote it
loads(line) == [line EXCEPT !.form = "py"]

LoadAll(lines) == [i \in 1..Len(lines) |-> loads(lines[i])]

\* The lines a loop reads that ends at the first line json.loads rejects
\* (the JSONDecodeError leaves the loop for the except of the whole read);
\* blank lines are passed over before json.loads
RECURSIVE UntilRejected(_)
UntilRejected(lines) ==
    IF lines = << >> \/ Head(lines).kind = "bad" THEN << >>
    ELSE IF Head(lines).kind = "blank" THEN UntilRejected(Tail(lines))
    ELSE <<Head(lines)>> \o UntilRejected(Tail(lines))

\* A read with a cursor: it returns the records from position rd_count + 1 on
sm_read_from_cursor(session_id, lines) ==
    LET records == LoadAll(SelectSeq(lines, LAMBDA l : l.kind = "json"))
    IN [i \in 1..(IF Len(records) > rd_count THEN Len(records) - rd_count ELSE 0) |->
           records[i + rd_count]]

\* SessionManager.read_session: messages
sm_read_lines(session_id, lines) ==
    LoadAll(SelectSeq(lines, LAMBDA l :
                /\ l.kind = "json"
                /\ (is_protected(session_id) => ~is_unified_message(l))))

\* IsolatedSessionManager.read_session_messages: messages
ism_read_lines(session_id, lines) ==
    LoadAll(SelectSeq(UntilRejected(lines), LAMBDA l :
                is_protected(session_id) => ~is_unification_attempt(l)))

\* JSONLMonitor.get_latest_messages: messages, the records of type user and
\* assistant in the form the frontend expects
frontend_messages(lines) ==
    LET shown == SelectSeq(lines, LAMBDA l : l.type \in {"user", "assistant"})
    IN [i \in 1..Len(shown) |->
           [role |-> shown[i].type, content |-> shown[i].content,
            timestamp |-> shown[i].timestamp]]

latest_messages(lines) == frontend_messages(UntilRejected(lines))

Read(name, session_id, result) ==
    /\ rd_count < MaxReads
    /\ rd_count' = rd_count + 1
    /\ rd_op' = [name |-> name, session_id |-> session_id]
    /\ rd_result' = result
    /\ rd_now' = now
    /\ rd_prev' = [op |-> rd_op, result |-> rd_result, now |-> rd_now]
    /\ UNCHANGED <<arbVars, storeVars, mgrVars, umVars, swVars, cuVars, apiVars>>

\* SessionManager.read_session
sm_read_session(session_id) ==
    /\ Read("sm_read_session", session_id,
            IF session_id \in on_disk THEN sm_read_lines(session_id, files[session_id])
            ELSE << >>)

\* IsolatedSessionManager.read_session_messages
ism_read_session_messages(session_id) ==
    /\ Read("ism_read_session_messages", session_id,
            IF session_id \in on_disk THEN ism_read_lines(session_id, files[session_id])
            ELSE << >>)

\* JSONLMonitor.get_latest_messages: it reads the .jsonl file of the project
\* that was modified last, whatever session_id it is given
get_latest_messages ==
    IF on_disk = {}
    THEN Read("get_latest_messages", Absent, << >>)
    ELSE \E latest_file \in on_disk :
            Read("get_latest_messages", latest_file, latest_messages(files[latest_file]))

\* The reads start on session files other processes have written
ReadStartFiles ==
    /\ \E web \in ReadStartWebFiles, other \in ReadStartOtherFiles :
          /\ files = [s \in StoreIds |-> IF s = WEB_SESSION THEN web
                                         ELSE IF s = OTHER_SESSION THEN other ELSE <<>>]
          /\ on_disk = {s \in {WEB_SESSION} : web # <<>>}
                          \cup {s \in {OTHER_SESSION} : other # <<>>}
    /\ backup_file = <<>>
    /\ sessions = [s \in PROTECTED_SESSIONS |-> [message_count |-> 0, last_activity |-> 0]]
    /\ active_sessions = [s \in PROTECTED_SESSIONS |-> [message_count |-> 0, last_access |-> 0]]
    /\ session_locks = {}
    /\ now = 0
    /\ st_op = NoOp

----------------------------------------------------------------------------
(* Consolidation into the unified session file *)

\* Messages that carry the timestamp of their sender
HiAt1 == [Hi EXCEPT !.timestamp = 1]
ByeAt2 == [Bye EXCEPT !.timestamp = 2]

ConsolMessages == {Hi, HiAt1}
ConsolStartWebFiles == {<< >>, <<Hi>>, <<ByeAt2, HiAt1>>}
ConsolStartOtherFiles == {<< >>, <<Hi>>, <<HiAt1, BadLine>>}

ConsolStartFiles ==
    /\ \E web \in ConsolStartWebFiles, other \in ConsolStartOtherFiles :
          /\ files = [s \in StoreIds |-> IF s = WEB_SESSION THEN web
                                         ELSE IF s = OTHER_SESSION THEN other ELSE <<>>]
          /\ on_disk = {s \in {WEB_SESSION} : web # <<>>}
                          \cup {s \in {OTHER_SESSION} : other # <<>>}
    /\ backup_file = <<>>
    /\ sessions = [s \in PROTECTED_SESSIONS |-> [message_count |-> 0, last_activity |-> 0]]
    /\ active_sessions = [s \in PROTECTED_SESSIONS |-> [message_count |-> 0, last_access |-> 0]]
    /\ session_locks = {}
    /\ now = 0
    /\ st_op = NoOp

\* data = json.loads(line); data['sessionId'] = UNIFIED_SESSION_ID;
\* json.dumps(data): the lines json.loads rejects and the blank ones are left out
moved_entries(lines) ==
    LET valid == SelectSeq(lines, LAMBDA l : l.kind = "json")
    IN [i \in 1..Len(valid) |->
           [valid[i] EXCEPT !.sessionId = UNIFIED_WEB_ID, !.form = "py"]]

\* The orders in which the files of a set can be visited
FileOrders(S) ==
    {order \in [1..Cardinality(S) -> S] :
        \A i, j \in 1..Cardinality(S) : i # j => order[i] # order[j]}

RECURSIVE entries_of_files(_)
entries_of_files(order) ==
    IF order = << >> THEN << >>
    ELSE moved_entries(files[Head(order)]) \o entries_of_files(Tail(order))

\* list.sort(key=lambda x: x.get('timestamp', '')): stable, the entries
\* without a timestamp first
RECURSIVE insert_by_timestamp(_, _)
insert_by_timestamp(entry, sorted) ==
    IF sorted = << >> THEN <<entry>>
    ELSE IF Head(sorted).timestamp <= entry.timestamp
         THEN <<Head(sorted)>> \o insert_by_timestamp(entry, Tail(sorted))
         ELSE <<entry>> \o sorted

RECURSIVE sort_by_timestamp(_)
sort_by_timestamp(entries) ==
    IF entries = << >> THEN << >>
    ELSE insert_by_timestamp(entries[Len(entries)],
                             sort_by_timestamp(SubSeq(entries, 1, Len(entries) - 1)))

\* unified_session_monitor.initial_sync: the unified file is emptied, then
\* written from the other files of the project, visited by date of change
\* (the model keeps no dates: any order)
initial_sync ==
    /\ now < MaxClock
    /\ now' = now + 1
    /\ \E order \in FileOrders(on_disk \ {UNIFIED_WEB_ID}) :
          LET all_entries == sort_by_timestamp(entries_of_files(order))
          IN /\ files' = [files EXCEPT ![UNIFIED_WEB_ID] = all_entries]
             /\ on_disk' = on_disk \cup {UNIFIED_WEB_ID}
             /\ st_op' = Call("initial_sync", UNIFIED_WEB_ID, Hi, Len(all_entries))
    /\ UNCHANGED <<backup_file, sessions, active_sessions, session_locks>>
    /\ UNCHANGED notStore

\* force_unified_session.clean_existing_files: glob gives the other files in
\* any order
clean_existing_files ==
    /\ now < MaxClock
    /\ now' = now + 1
    /\ LET other_files == on_disk \ {UNIFIED_WEB_ID}
       IN IF other_files = {}
          THEN /\ st_op' = Call("clean_existing_files", UNIFIED_WEB_ID, Hi, RNone)
               /\ UNCHANGED <<files, on_disk>>
          ELSE \E order \in FileOrders(other_files) :
                  LET kept == IF UNIFIED_WEB_ID \in on_disk
                              THEN LoadAll(SelectSeq(files[UNIFIED_WEB_ID],
                                                     LAMBDA l : l.kind = "json"))
                              ELSE << >>
                      all_entries == sort_by_timestamp(kept \o entries_of_files(order))
                  IN /\ files' = [s \in StoreIds |->
                                     IF s = UNIFIED_WEB_ID THEN all_entries ELSE << >>]
                     /\ on_disk' = {UNIFIED_WEB_ID}
                     /\ st_op' = Call("clean_existing_files", UNIFIED_WEB_ID, Hi, RNone)
    /\ UNCHANGED <<backup_file, sessions, active_sessions, session_locks>>
    /\ UNCHANGED notStore

\* UnifiedSessionManager.force_consolidate_file(source_file)
force_consolidate_file(source_jsonl) ==
    /\ now < MaxClock
    /\ now' = now + 1
    /\ IF source_jsonl \notin on_disk
       THEN /\ st_op' = Call("force_consolidate_file", source_jsonl, Hi, RFalse)
            /\ UNCHANGED <<files, on_disk>>
       ELSE LET lines_moved == moved_entries(files[source_jsonl])
            IN /\ files' = [files EXCEPT ![UNIFIED_WEB_ID] = @ \o lines_moved,
                                         ![source_jsonl] = << >>]
               /\ on_disk' = (on_disk \cup {s \in {UNIFIED_WEB_ID} : lines_moved # << >>})
                                \ {source_jsonl}
               /\ st_op' = Call("force_consolidate_file", source_jsonl, Hi, RTrue)
    /\ UNCHANGED <<backup_file, sessions, active_sessions, session_locks>>
    /\ UNCHANGED notStore

----------------------------------------------------------------------------
(* A sweep beside other writers: the read and the rewrite of the file are two
   system calls, and another process may append to the file between them *)

SweepKinds == {"clean_unified_messages", "clean_file", "monitor_unification_attempts"}

\* A line another process appends while a sweep runs
Late == NativeLine("late")

SwStart ==
    /\ sw_pc = "idle"
    /\ sw_kind = "clean_unified_messages"
    /\ sw_session = WEB_SESSION
    /\ sw_lines = << >>
    /\ sw_late = << >>

\* Whether the sweep, having read these lines, opens the file for writing
sweep_rewrites(kind, lines) ==
    CASE kind = "clean_unified_messages" -> sm_removed_count(lines) > 0
      [] kind = "clean_file" -> blocker_removed_count(lines, terminal_exists) > 0
      [] OTHER -> ism_tick_file(lines) # lines

\* clean_messages / clean_lines: the lines the sweep keeps of those it read
sweep_kept(kind, lines) ==
    CASE kind = "clean_unified_messages" -> sm_clean_lines(lines)
      [] kind = "clean_file" -> blocker_clean_lines(lines, terminal_exists)
      [] OTHER -> ism_tick_file(lines)

\* A rewrite that would put back what was appended since the read
rewritten_file_with_late == sweep_kept(sw_kind, sw_lines) \o sw_late

\* open(session_file, 'w'); f.writelines(clean_messages): the file after the
\* rewrite
rewritten_file == sweep_kept(sw_kind, sw_lines)

\* The sweep opens the file and reads all its lines
SweepRead(kind, s) ==
    /\ sw_pc \in {"idle", "done"}
    /\ is_protected(s) /\ s \in on_disk
    /\ kind = "clean_file" => s = WEB_SESSION
    /\ sw_pc' = "read"
    /\ sw_kind' = kind
    /\ sw_session' = s
    /\ sw_lines' = files[s]
    /\ sw_late' = << >>
    /\ UNCHANGED <<arbVars, storeVars, mgrVars, umVars, cuVars, rdVars, apiVars>>

\* Another process appends a line to a session file
OtherWriterAppend(s) ==
    /\ Len(files[s]) < MaxFileLen
    /\ AppendLine(s, Late)
    /\ sw_late' = IF sw_pc = "read" /\ s = sw_session THEN Append(sw_late, Late) ELSE sw_late
    /\ UNCHANGED <<sw_pc, sw_kind, sw_session, sw_lines>>
    /\ UNCHANGED <<backup_file, sessions, active_sessions, session_locks, now, st_op>>
    /\ UNCHANGED notSweep

\* The sweep rewrites the file from the lines it read, when it removed any
\* (clean_file copies the file as it is now to its backup first)
SweepRewrite ==
    /\ sw_pc = "read"
    /\ sw_pc' = "done"
    /\ IF sweep_rewrites(sw_kind, sw_lines)
       THEN /\ files' = [files EXCEPT ![sw_session] = rewritten_file]
            /\ backup_file' = IF sw_kind = "clean_file" THEN files[sw_session]
                              ELSE backup_file
       ELSE UNCHANGED <<files, backup_file>>
    /\ UNCHANGED <<sw_kind, sw_session, sw_lines, sw_late>>
    /\ UNCHANGED <<on_disk, sessions, active_sessions, session_locks, now, st_op>>
    /\ UNCHANGED notSweep

----------------------------------------------------------------------------
(* The /api/chat response stream *)

MaxEvents == 4

ChatIds == {Absent, WEB_SESSION}
ContentTypes == {"assistant_text", "tool_use", "tool_result"}

Event(type, session_id) == [type |-> type, session_id |-> session_id]

SseStart ==
    /\ sse_pc = "idle"
    /\ handler_pc = "new"
    /\ sse_events = << >>
    /\ chat_session_id = Absent
    /\ real_session_id = Absent
    /\ sse_raised = FALSE

\* real_session_id or "unknown"
or_unknown(session_id) == IF PyTruthy(session_id) THEN session_id ELSE "unknown"

\* POST /api/chat: send_message returns the StreamingResponse over generate()
send_message(session_id) ==
    /\ sse_pc \in {"idle", "closed"}
    /\ sse_pc' = "open"
    /\ handler_pc' = "new"
    /\ sse_events' = << >>
    /\ chat_session_id' = session_id
    /\ real_session_id' = session_id
    /\ sse_raised' = FALSE
    /\ UNCHANGED <<delVars, notApi>>

\* generate's loop body for one response of the handler: the session_migrated
\* event when the request had no session id, then the response itself
Forward(response) ==
    LET real == response.session_id
        migration_data == IF ~PyTruthy(chat_session_id) /\ PyTruthy(real)
                             /\ real # chat_session_id
                          THEN <<Event("session_migrated", real)>>
                          ELSE << >>
    IN /\ real_session_id' = real
       /\ sse_events' = sse_events \o migration_data \o <<response>>

\* ClaudeHandler.send_message up to its first yield
HandlerProcessing ==
    /\ sse_pc = "open" /\ handler_pc = "new"
    /\ Forward(Event("processing", chat_session_id))
    /\ handler_pc' = "begun"
    /\ UNCHANGED <<sse_pc, chat_session_id, sse_raised>>
    /\ UNCHANGED <<delVars, notApi>>

\* create_session raises before the handler's try: the exception reaches
\* generate, whose except sends the error event
HandlerCreateFails ==
    /\ sse_pc = "open" /\ handler_pc = "new"
    /\ sse_events' = Append(sse_events, Event("error", or_unknown(real_session_id)))
    /\ sse_pc' = "raised"
    /\ handler_pc' = "ended"
    /\ sse_raised' = TRUE
    /\ UNCHANGED <<chat_session_id, real_session_id>>
    /\ UNCHANGED <<delVars, notApi>>

\* The handler yields a text, tool_use or tool_result response
HandlerContent(type) ==
    /\ sse_pc = "open" /\ handler_pc = "begun"
    /\ Len(sse_events) < MaxEvents
    /\ Forward(Event(type, chat_session_id))
    /\ UNCHANGED <<sse_pc, handler_pc, chat_session_id, sse_raised>>
    /\ UNCHANGED <<delVars, notApi>>

\* ResultMessage: the handler yields the result with the session id it
\* validated, and leaves its loop
HandlerResult(sdk_session_id) ==
    /\ sse_pc = "open" /\ handler_pc = "begun"
    /\ sdk_session_id \in {chat_session_id, OTHER_SESSION}
    /\ Forward(Event("result", sdk_session_id))
    /\ handler_pc' = "ended"
    /\ UNCHANGED <<sse_pc, chat_session_id, sse_raised>>
    /\ UNCHANGED <<delVars, notApi>>

\* An exception inside the handler's try (query or receive_response raises):
\* the handler yields an error response and ends
HandlerError ==
    /\ sse_pc = "open" /\ handler_pc = "begun"
    /\ Forward(Event("error", chat_session_id))
    /\ handler_pc' = "ended"
    /\ sse_raised' = TRUE
    /\ UNCHANGED <<sse_pc, chat_session_id>>
    /\ UNCHANGED <<delVars, notApi>>

\* receive_response ends with no ResultMessage
HandlerEnds ==
    /\ sse_pc = "open" /\ handler_pc = "begun"
    /\ handler_pc' = "ended"
    /\ UNCHANGED <<sse_pc, sse_events, chat_session_id, real_session_id, sse_raised>>
    /\ UNCHANGED <<delVars, notApi>>

\* A finally that sends nothing after the except has sent the error
final_data_unless_raised ==
    IF sse_pc = "raised" THEN << >>
    ELSE <<Event("done", or_unknown(real_session_id))>>

\* finally: final_data
final_data == <<Event("done", or_unknown(real_session_id))>>

\* generate's finally, after the loop or after the except
GenerateFinally ==
    /\ \/ sse_pc = "open" /\ handler_pc = "ended"
       \/ sse_pc = "raised"
    /\ sse_events' = sse_events \o final_data
    /\ sse_pc' = "closed"
    /\ UNCHANGED <<handler_pc, chat_session_id, real_session_id, sse_raised>>
    /\ UNCHANGED <<delVars, notApi>>

----------------------------------------------------------------------------
(* ClaudeHandler: sessions and their SDK clients *)

MaxClients == 2
MaxTokens == 1
MaxHandlerCalls == 2

HandlerIds == {WEB_SESSION, OTHER_SESSION}
HandlerCallIds == 1..MaxHandlerCalls
HandlerOps == {"create_session", "destroy_session", "clear_session",
               "update_session_config", "send_message"}

\* SessionConfig(): the default, and a configuration a request carries
DefaultConfig == "default"
Configs == {DefaultConfig, "custom"}

\* SessionHistory(): no messages, no tokens, no cost
NewHistory == 0

NoCall == [op |-> "none", id |-> Absent, pc |-> "idle", config |-> DefaultConfig,
           history |-> NewHistory, client |-> 0]
NoneDone == [op |-> "none", id |-> Absent, outcome |-> "none",
             config |-> DefaultConfig, history |-> NewHistory]

ChStart ==
    /\ ch_clients = << >>
    /\ ch_active = {}
    /\ ch_configs = << >>
    /\ ch_histories = << >>
    /\ connected = {}
    /\ made = 0
    /\ ch_calls = [p \in HandlerCallIds |-> NoCall]
    /\ ch_done = NoneDone

\* del d[key]
Del(d, key) == [k \in DOMAIN d \ {key} |-> d[k]]

\* d[key] = value
Put(d, key, value) == [k \in DOMAIN d \cup {key} |-> IF k = key THEN value ELSE d[k]]

\* d.get(key, default)
Get(d, key, default) == IF key \in DOMAIN d THEN d[key] ELSE default

FreeHandlerCalls == {p \in HandlerCallIds : ch_calls[p].pc = "idle"}

Ended(call, outcome) ==
    [op |-> call.op, id |-> call.id, outcome |-> outcome, config |-> call.config,
     history |-> call.history]

\* A destroy_session that forgets the client alone
forget_client_only(session_id) ==
    /\ ch_clients' = Del(ch_clients, session_id)
    /\ UNCHANGED <<ch_active, ch_configs, ch_histories>>

\* destroy_session after the disconnect: the four del statements
forget_session(session_id) ==
    /\ ch_clients' = Del(ch_clients, session_id)
    /\ ch_active' = ch_active \ {session_id}
    /\ ch_configs' = Del(ch_configs, session_id)
    /\ ch_histories' = Del(ch_histories, session_id)

\* create_session from client = ClaudeSDKClient(options) to the await of
\* client.connect(), in the state the destroy part has left
AwaitConnect(p, call) ==
    /\ made < MaxClients
    /\ made' = made + 1
    /\ ch_calls' = [ch_calls EXCEPT ![p] = [call EXCEPT !.pc = "connect",
                                                       !.client = made + 1]]
    /\ ch_done' = NoneDone

\* A call from its entry to its first await, or to its end. The destroy part
\* awaits the disconnect of the registered client; with no client registered
\* it deletes the other three keys and the create part follows at once.
HandlerBegin(p, op, session_id, config) ==
    LET registered == session_id \in DOMAIN ch_clients
        call == [op |-> op, id |-> session_id, pc |-> "idle",
                 config |-> IF op = "clear_session"
                            THEN Get(ch_configs, session_id, DefaultConfig)
                            ELSE IF op \in {"create_session", "update_session_config"}
                            THEN config
                            ELSE DefaultConfig,
                 history |-> IF op = "update_session_config"
                             THEN Get(ch_histories, session_id, NewHistory)
                             ELSE NewHistory,
                 client |-> 0]
    IN IF op = "update_session_config" /\ ~registered
       THEN /\ ch_done' = Ended(call, "false")
            /\ UNCHANGED <<ch_clients, ch_active, ch_configs, ch_histories,
                           connected, made, ch_calls>>
       ELSE IF op = "send_message" /\ registered
       THEN /\ ch_done' = Ended(call, "returned")
            /\ UNCHANGED <<ch_clients, ch_active, ch_configs, ch_histories,
                           connected, made, ch_calls>>
       ELSE IF registered
       THEN /\ ch_calls' = [ch_calls EXCEPT ![p] =
                               [call EXCEPT !.pc = "disconnect",
                                            !.client = ch_clients[session_id]]]
            /\ ch_done' = NoneDone
            /\ UNCHANGED <<ch_clients, ch_active, ch_configs, ch_histories,
                           connected, made>>
       ELSE IF op = "destroy_session"
       THEN /\ forget_session(session_id)
            /\ ch_done' = Ended(call, "returned")
            /\ UNCHANGED <<connected, made, ch_calls>>
       ELSE /\ IF op = "clear_session" THEN forget_session(session_id)
               ELSE UNCHANGED <<ch_clients, ch_active, ch_configs, ch_histories>>
            /\ AwaitConnect(p, call)
            /\ UNCHANGED connected

\* A request or an internal caller enters a ClaudeHandler method
HandlerCall(op, session_id, config) ==
    /\ FreeHandlerCalls # {}
    /\ HandlerBegin(CHOOSE p \in FreeHandlerCalls : \A q \in FreeHandlerCalls : p <= q,
                    op, session_id, config)
    /\ UNCHANGED notHandler

\* destroy_session resumes after await self.clients[session_id].disconnect():
\* del self.clients[session_id] raises KeyError when the key is gone
DisconnectDone(p) ==
    LET call == ch_calls[p]
    IN /\ call.pc = "disconnect"
       /\ connected' = connected \ {call.client}
       /\ IF call.id \notin DOMAIN ch_clients
          THEN /\ ch_calls' = [ch_calls EXCEPT ![p] = NoCall]
               /\ ch_done' = Ended(call, "raised")
               /\ UNCHANGED <<ch_clients, ch_active, ch_configs, ch_histories, made>>
          ELSE /\ forget_session(call.id)
               /\ IF call.op = "destroy_session"
                  THEN /\ ch_calls' = [ch_calls EXCEPT ![p] = NoCall]
                       /\ ch_done' = Ended(call, "returned")
                       /\ UNCHANGED made
                  ELSE AwaitConnect(p, call)
       /\ UNCHANGED notHandler

\* create_session resumes after await client.connect(): the four
\* assignments, then update_session_config puts the saved history back; or
\* connect() has raised and the call ends with that exception
ConnectDone(p, ok) ==
    LET call == ch_calls[p]
    IN /\ call.pc = "connect"
       /\ ch_calls' = [ch_calls EXCEPT ![p] = NoCall]
       /\ IF ok
          THEN /\ connected' = connected \cup {call.client}
               /\ ch_clients' = Put(ch_clients, call.id, call.client)
               /\ ch_active' = ch_active \cup {call.id}
               /\ ch_configs' = Put(ch_configs, call.id,
                                    IF call.op = "send_message" THEN DefaultConfig
                                    ELSE call.config)
               /\ ch_histories' = Put(ch_histories, call.id,
                                      IF call.op = "update_session_config"
                                      THEN call.history ELSE NewHistory)
               /\ ch_done' = Ended(call, "returned")
          ELSE /\ ch_done' = Ended(call, "raised")
               /\ UNCHANGED <<ch_clients, ch_active, ch_configs, ch_histories,
                              connected>>
       /\ UNCHANGED made
       /\ UNCHANGED notHandler

\* send_message at a ResultMessage with usage: history.total_tokens += ...
RecordUsage(session_id) ==
    /\ session_id \in DOMAIN ch_histories
    /\ ch_histories[session_id] < MaxTokens
    /\ ch_histories' = [ch_histories EXCEPT ![session_id] = @ + 1]
    /\ ch_done' = NoneDone
    /\ UNCHANGED <<ch_clients, ch_active, ch_configs, connected, made, ch_calls>>
    /\ UNCHANGED notHandler

----------------------------------------------------------------------------
(* ClaudeHandler.send_message: the buffering of text blocks *)

BUFFER_THRESHOLD == 20
MaxReceived == 4

\* len(block.text) of the text blocks that come
TextLens == {5, 20}

\* A text block is its number in the order of arrival; the content of an
\* assistant_text response is the sequence of the blocks joined into it.
Response(type, content) == [type |-> type, content |-> content, seen |-> received]

BufStart ==
    /\ text_buffer = << >>
    /\ buffer_size = 0
    /\ received = 0
    /\ buf_msgs = 0
    /\ yielded = << >>
    /\ buf_pc = "receiving"

\* flush_buffer: what has been yielded once it has run
flush_buffer(out, buffer, seen) ==
    IF buffer # << >>
    THEN Append(out, [type |-> "assistant_text", content |-> buffer, seen |-> seen])
    ELSE out

Receiving ==
    /\ buf_pc = "receiving"
    /\ buf_msgs < MaxReceived
    /\ buf_msgs' = buf_msgs + 1

\* A TextBlock of an AssistantMessage: into the buffer, which is flushed when
\* it holds BUFFER_THRESHOLD characters or FLUSH_INTERVAL has passed since the
\* last flush
ReceiveText(length, interval_passed) ==
    /\ Receiving
    /\ received' = received + 1
    /\ LET buffer == Append(text_buffer, received + 1)
           size == buffer_size + length
       IN IF size >= BUFFER_THRESHOLD \/ interval_passed
          THEN /\ yielded' = flush_buffer(yielded, buffer, received + 1)
               /\ text_buffer' = << >>
               /\ buffer_size' = 0
          ELSE /\ text_buffer' = buffer
               /\ buffer_size' = size
               /\ UNCHANGED yielded
    /\ UNCHANGED buf_pc
    /\ UNCHANGED notBuffer

\* A ToolUseBlock: the buffer is flushed, then the tool_use is yielded
ReceiveToolUse ==
    /\ Receiving
    /\ yielded' = Append(flush_buffer(yielded, text_buffer, received),
                         Response("tool_use", << >>))
    /\ text_buffer' = << >>
    /\ buffer_size' = 0
    /\ UNCHANGED <<received, buf_pc>>
    /\ UNCHANGED notBuffer

\* A ToolResultBlock of a UserMessage: yielded as it comes
ReceiveToolResult ==
    /\ Receiving
    /\ yielded' = Append(yielded, Response("tool_result", << >>))
    /\ UNCHANGED <<text_buffer, buffer_size, received, buf_pc>>
    /\ UNCHANGED notBuffer

\* The ResultMessage: the buffer is flushed, the result is yielded and the
\* loop is left; the flush after the loop finds the buffer empty
ReceiveResult ==
    /\ Receiving
    /\ yielded' = Append(flush_buffer(yielded, text_buffer, received),
                         Response("result", << >>))
    /\ text_buffer' = << >>
    /\ buffer_size' = 0
    /\ buf_pc' = "ended"
    /\ UNCHANGED received
    /\ UNCHANGED notBuffer

\* receive_response ends with no ResultMessage: the flush after the loop
ReceiveEnds ==
    /\ buf_pc = "receiving"
    /\ yielded' = flush_buffer(yielded, text_buffer, received)
    /\ text_buffer' = << >>
    /\ buffer_size' = 0
    /\ buf_pc' = "ended"
    /\ UNCHANGED <<received, buf_msgs>>
    /\ UNCHANGED notBuffer

\* receive_response raises: the except branch yields the error response and
\* the generator ends
ReceiveRaises ==
    /\ buf_pc = "receiving"
    /\ yielded' = Append(yielded, Response("error", << >>))
    /\ buf_pc' = "ended"
    /\ UNCHANGED <<text_buffer, buffer_size, received, buf_msgs>>
    /\ UNCHANGED notBuffer

----------------------------------------------------------------------------
(* The realtime stream: monitor_latest_jsonl *)

MaxRtLines == 2

RtFiles == {"a.jsonl", "b.jsonl"}
NoFile == "<none>"
LineTypes == {"assistant", "user"}

\* A line is known by its file and its place in it. Sizes are counted in
\* lines: every line of the model has the same length.
RtStart ==
    /\ rt_files = [f \in RtFiles |-> << >>]
    /\ rt_latest = NoFile
    /\ last_file = NoFile
    /\ last_content = << >>
    /\ last_size = 0
    /\ rt_emitted = << >>
    /\ rt_synced = FALSE

IsAssistant(line) == line.type = "assistant"

\* The lines of type assistant, whose text is sent
AssistantLines(lines) == SelectSeq(lines, IsAssistant)

\* lines[len(last_content):]
new_lines(lines) ==
    IF Len(lines) > Len(last_content)
    THEN SubSeq(lines, Len(last_content) + 1, Len(lines))
    ELSE << >>

\* A Claude session appends a line to its file, which becomes the most
\* recently modified one
RtAppend(f, type) ==
    /\ Len(rt_files[f]) < MaxRtLines
    /\ rt_files' = [rt_files EXCEPT
                       ![f] = Append(@, [file |-> f, n |-> Len(@) + 1, type |-> type])]
    /\ rt_latest' = f
    /\ rt_synced' = FALSE
    /\ UNCHANGED <<last_file, last_content, last_size, rt_emitted>>
    /\ UNCHANGED notRealtime

\* One pass of the loop of monitor_latest_jsonl
monitor_latest_jsonl ==
    /\ IF rt_latest = NoFile
       THEN UNCHANGED <<last_file, last_content, last_size, rt_emitted>>
       ELSE LET lines == rt_files[rt_latest]
                st_size == Len(lines)
            IN IF rt_latest # last_file \/ st_size > last_size
               THEN /\ rt_emitted' = rt_emitted \o AssistantLines(new_lines(lines))
                    /\ last_content' = lines
                    /\ last_size' = st_size
                    /\ last_file' = rt_latest
               ELSE UNCHANGED <<last_file, last_content, last_size, rt_emitted>>
    /\ rt_synced' = TRUE
    /\ UNCHANGED <<rt_files, rt_latest>>
    /\ UNCHANGED notRealtime

----------------------------------------------------------------------------
(* DELETE of a session: server.delete_session and session_routes.delete_session *)

MaxApiCalls == 3

ApiIds == StoreIds
UserIds == {"anonymous", "u1"}

NoResponse == [route |-> "none", session_id |-> Absent, token |-> Absent, status |-> 0]

DelStart ==
    /\ clients = {}
    /\ handler_sessions = {}
    /\ sessions_cache = << >>
    /\ user_sessions = << >>
    /\ issued = {}
    /\ api_response = NoResponse
    /\ api_calls = 0

ApiStart == SseStart /\ DelStart /\ ChStart /\ BufStart /\ RtStart

\* ClaudeHandler.create_session (POST /api/new-session, or the first message
\* of a session)
handler_create_session(session_id) ==
    /\ clients' = clients \cup {session_id}
    /\ handler_sessions' = handler_sessions \cup {session_id}
    /\ UNCHANGED <<sessions_cache, user_sessions, issued, api_response, api_calls>>
    /\ UNCHANGED <<sseVars, notApi>>

\* ClaudeHandler.destroy_session
destroy_session(session_id) ==
    /\ clients' = clients \ {session_id}
    /\ handler_sessions' = handler_sessions \ {session_id}

\* server.py, DELETE /api/session/{session_id}
server_delete_session(session_id) ==
    /\ api_calls < MaxApiCalls
    /\ api_calls' = api_calls + 1
    /\ destroy_session(session_id)
    /\ api_response' = [route |-> "server", session_id |-> session_id,
                        token |-> Absent, status |-> 200]
    /\ UNCHANGED <<sessions_cache, user_sessions, issued>>
    /\ UNCHANGED <<sseVars, notApi>>

\* session_routes.py, POST /api/sessions/create: uuid4 gives an id never
\* given before
routes_create_session(session_id, user_id) ==
    /\ session_id \notin issued
    /\ issued' = issued \cup {session_id}
    /\ sessions_cache' = [s \in DOMAIN sessions_cache \cup {session_id} |->
                             IF s = session_id THEN user_id ELSE sessions_cache[s]]
    /\ user_sessions' = [u \in DOMAIN user_sessions \cup {user_id} |->
                            IF u = user_id
                            THEN (IF u \in DOMAIN user_sessions THEN user_sessions[u]
                                  ELSE << >>) \o <<session_id>>
                            ELSE user_sessions[u]]
    /\ UNCHANGED <<clients, handler_sessions, api_response, api_calls>>
    /\ UNCHANGED <<sseVars, notApi>>

\* session_routes.py, DELETE /api/sessions/{session_id}, with
\* get_current_session: token is the session id of the bearer token, Absent
\* when the request has none
routes_delete_session(session_id, token) ==
    /\ token \in issued \cup {Absent}
    /\ api_calls < MaxApiCalls
    /\ api_calls' = api_calls + 1
    /\ LET status_code == IF token = Absent THEN 401
                     ELSE IF token \notin DOMAIN sessions_cache THEN 404
                     ELSE IF session_id # token THEN 403
                     ELSE 200
       IN /\ api_response' = [route |-> "routes", session_id |-> session_id,
                              token |-> token, status |-> status_code]
          /\ IF status_code = 200
             THEN /\ sessions_cache' = [s \in DOMAIN sessions_cache \ {session_id} |->
                                           sessions_cache[s]]
                  /\ user_sessions' =
                        [u \in DOMAIN user_sessions |->
                            IF u = sessions_cache[session_id]
                            THEN SelectSeq(user_sessions[u], LAMBDA sid : sid # session_id)
                            ELSE user_sessions[u]]
             ELSE UNCHANGED <<sessions_cache, user_sessions>>
    /\ UNCHANGED <<clients, handler_sessions, issued>>
    /\ UNCHANGED <<sseVars, notApi>>

----------------------------------------------------------------------------
(* MonitorManager *)

max_restart_attempts == 5
restart_cooldown == 30
max_consecutive_errors == 5
errors_kept == 10

MaxTasks == 2
MaxCalls == 2
MaxErrors == 11
TickSeconds == 30

TaskIds == 1..MaxTasks
CallIds == 1..MaxCalls

\* A task is "unused" (no such task), "ready" (created, not yet run),
\* suspended in its loop ("polling": in monitor_and_unify's sleep; "backoff":
\* in _run_monitor's sleep(5); "sleeping": in _health_check_loop's sleep(10))
\* or "done". cancel: Task.cancel() was called and not yet delivered.
NoTask == [st |-> "unused", cancel |-> FALSE, errs |-> 0]
NewTask == [st |-> "ready", cancel |-> FALSE, errs |-> 0]
DoneTask == [st |-> "done", cancel |-> FALSE, errs |-> 0]

IdleCall == [op |-> "idle", pc |-> "idle", task |-> 0]

MgrStart ==
    /\ is_running = FALSE
    /\ status = "stopped"
    /\ errors = 0
    /\ restarts = 0
    /\ restart_count = 0
    /\ since_restart = NoTime
    /\ monitor = FALSE
    /\ monitor_task = 0
    /\ health_check_task = 0
    /\ mon = [t \in TaskIds |-> NoTask]
    /\ health = [t \in TaskIds |-> NoTask]
    /\ calls = [p \in CallIds |-> IdleCall]
    /\ restart_ret = "none"
    /\ start_kept = FALSE

Awaited(pc) == {calls[p].task : p \in {q \in CallIds : calls[q].pc = pc}}

\* Task ids asyncio.create_task can take: no such task, or a finished task
\* nothing awaits.
FreeMon == {t \in TaskIds : mon[t].st \in {"unused", "done"} /\ t \notin Awaited("wait_mon")}
FreeHealth == {t \in TaskIds : health[t].st \in {"unused", "done"} /\ t \notin Awaited("wait_health")}
FreeCalls == {p \in CallIds : calls[p].op = "idle"}

Lowest(S) == CHOOSE x \in S : \A y \in S : x <= y

Live(tasks, t) == t # 0 /\ tasks[t].st \notin {"unused", "done"}

\* Finished tasks that nothing refers to any more are forgotten
Forget(tasks, free, new) ==
    [t \in TaskIds |-> IF t = new THEN NewTask
                       ELSE IF t \in free THEN NoTask ELSE tasks[t]]

\* MonitorManager.start: it has no await, so it runs in one step. The
\* UnifiedSessionMonitor it constructs starts with last_processed = {}.
StartEffect ==
    IF is_running
    THEN UNCHANGED <<is_running, status, monitor, monitor_task, health_check_task,
                     mon, health, last_processed>>
    ELSE /\ FreeMon # {} /\ FreeHealth # {}
         /\ monitor' = TRUE
         /\ last_processed' = 0
         /\ monitor_task' = Lowest(FreeMon)
         /\ mon' = Forget(mon, FreeMon, Lowest(FreeMon))
         /\ health_check_task' = Lowest(FreeHealth)
         /\ health' = Forget(health, FreeHealth, Lowest(FreeHealth))
         /\ is_running' = TRUE
         /\ status' = "running"

\* MonitorManager.stop, from its entry ("begin") or from the await it was
\* suspended in, up to its next suspension or its return. Awaiting a task
\* that is done does not suspend. After the return a restart() goes on to its
\* sleep(2).
StopProgress(p, op, phase) ==
    LET entered == phase # "begin" \/ is_running
        go_mon == phase = "begin" /\ is_running /\ Live(mon, monitor_task)
        go_health == /\ entered /\ ~go_mon /\ phase # "wait_health"
                     /\ Live(health, health_check_task)
        finishes == entered /\ ~go_mon /\ ~go_health
        returned == IF op = "restart"
                    THEN [op |-> "restart", pc |-> "sleep", task |-> 0]
                    ELSE IdleCall
    IN /\ mon' = IF go_mon THEN [mon EXCEPT ![monitor_task].cancel = TRUE] ELSE mon
       /\ health' = IF go_health
                    THEN [health EXCEPT ![health_check_task].cancel = TRUE]
                    ELSE health
       /\ is_running' = IF finishes THEN FALSE ELSE is_running
       /\ status' = IF finishes THEN "stopped" ELSE status
       /\ calls' = [calls EXCEPT ![p] =
                       IF go_mon
                       THEN [op |-> op, pc |-> "wait_mon", task |-> monitor_task]
                       ELSE IF go_health
                       THEN [op |-> op, pc |-> "wait_health", task |-> health_check_task]
                       ELSE returned]
       /\ UNCHANGED <<monitor, monitor_task, health_check_task>>

\* MonitorManager.restart from its entry: the cooldown check, the limit
\* check, then stop() up to its first suspension
RestartBegin(p) ==
    IF since_restart # NoTime /\ since_restart < restart_cooldown
    THEN /\ restart_ret' = "cooldown"
         /\ calls' = [calls EXCEPT ![p] = IdleCall]
         /\ UNCHANGED <<is_running, status, errors, restarts, restart_count,
                        since_restart, monitor, monitor_task, health_check_task,
                        mon, health>>
    ELSE IF restart_count >= max_restart_attempts
    THEN /\ restart_ret' = "limit"
         /\ status' = "failed"
         /\ calls' = [calls EXCEPT ![p] = IdleCall]
         /\ UNCHANGED <<is_running, errors, restarts, restart_count, since_restart,
                        monitor, monitor_task, health_check_task, mon, health>>
    ELSE /\ restart_ret' = "stopping"
         /\ StopProgress(p, "restart", "begin")
         /\ UNCHANGED <<errors, restarts, restart_count, since_restart>>

\* POST /api/monitor/start, init_monitor_manager: start()
ClientStart ==
    /\ StartEffect
    /\ UNCHANGED <<errors, restarts, restart_count, since_restart, calls>>
    /\ restart_ret' = "none"
    /\ start_kept' = TRUE
    /\ UNCHANGED <<source_file, unified_file, current_size, poll_pc>>
    /\ UNCHANGED notMgrUm

\* POST /api/monitor/stop: stop()
ClientStop ==
    /\ FreeCalls # {}
    /\ StopProgress(Lowest(FreeCalls), "stop", "begin")
    /\ UNCHANGED <<errors, restarts, restart_count, since_restart>>
    /\ restart_ret' = "none"
    /\ start_kept' = FALSE
    /\ UNCHANGED notMgr

\* POST /api/monitor/restart: restart()
ClientRestart ==
    /\ FreeCalls # {}
    /\ RestartBegin(Lowest(FreeCalls))
    /\ start_kept' = FALSE
    /\ UNCHANGED notMgr

\* The task _run_monitor made with asyncio.create_task(self.restart()) runs
AutoRestartRun(p) ==
    /\ calls[p].op = "restart" /\ calls[p].pc = "entry"
    /\ RestartBegin(p)
    /\ start_kept' = FALSE
    /\ UNCHANGED notMgr

\* A stop() resumes when the task it awaits is done
StopResume(p) ==
    /\ \/ calls[p].pc = "wait_mon" /\ mon[calls[p].task].st = "done"
       \/ calls[p].pc = "wait_health" /\ health[calls[p].task].st = "done"
    /\ StopProgress(p, calls[p].op, calls[p].pc)
    /\ UNCHANGED <<errors, restarts, restart_count, since_restart>>
    /\ restart_ret' = "none"
    /\ UNCHANGED start_kept
    /\ UNCHANGED notMgr

\* restart() after its sleep(2): start(), then the count and the time
RestartWake(p) ==
    /\ calls[p].op = "restart" /\ calls[p].pc = "sleep"
    /\ StartEffect
    /\ restart_count' = restart_count + 1
    /\ since_restart' = 0
    /\ restarts' = restart_count + 1
    /\ calls' = [calls EXCEPT ![p] = IdleCall]
    /\ UNCHANGED errors
    /\ restart_ret' = "none"
    /\ UNCHANGED start_kept
    /\ UNCHANGED <<source_file, unified_file, current_size, poll_pc>>
    /\ UNCHANGED notMgrUm

\* _run_monitor at the top of its loop (first run, or after sleep(5)): the
\* loop ends when is_running is false, else monitor_and_unify starts polling
\* and does not return
MonitorRun(t) ==
    /\ mon[t].st \in {"ready", "backoff"} /\ ~mon[t].cancel
    /\ mon' = [mon EXCEPT ![t] = IF is_running
                                 THEN [st |-> "polling", cancel |-> FALSE, errs |-> @.errs]
                                 ELSE DoneTask]
    /\ UNCHANGED <<is_running, status, errors, restarts, restart_count, since_restart,
                   monitor, monitor_task, health_check_task, health, calls>>
    /\ restart_ret' = "none"
    /\ UNCHANGED start_kept
    /\ UNCHANGED notMgr

\* _run_monitor at the top of its loop when monitor_and_unify raises before
\* it polls: the except branch counts the error, and after
\* max_consecutive_errors of them makes a task of restart() and leaves the loop
MonitorError(t) ==
    /\ mon[t].st \in {"ready", "backoff"} /\ ~mon[t].cancel
    /\ is_running
    /\ errors < MaxErrors
    /\ errors' = errors + 1
    /\ IF mon[t].errs + 1 >= max_consecutive_errors
       THEN /\ FreeCalls # {}
            /\ calls' = [calls EXCEPT ![Lowest(FreeCalls)] =
                            [op |-> "restart", pc |-> "entry", task |-> 0]]
            /\ mon' = [mon EXCEPT ![t] = DoneTask]
       ELSE /\ mon' = [mon EXCEPT ![t] = [st |-> "backoff", cancel |-> FALSE,
                                          errs |-> @.errs + 1]]
            /\ UNCHANGED calls
    /\ UNCHANGED <<is_running, status, restarts, restart_count, since_restart,
                   monitor, monitor_task, health_check_task, health>>
    /\ restart_ret' = "none"
    /\ UNCHANGED start_kept
    /\ UNCHANGED notMgr

\* CancelledError reaches a _run_monitor task
MonitorCancelled(t) ==
    /\ mon[t].cancel /\ mon[t].st \in {"ready", "polling", "backoff"}
    /\ mon' = [mon EXCEPT ![t] = DoneTask]
    /\ UNCHANGED <<is_running, status, errors, restarts, restart_count, since_restart,
                   monitor, monitor_task, health_check_task, health, calls>>
    /\ restart_ret' = "none"
    /\ UNCHANGED start_kept
    /\ UNCHANGED notMgr

\* MonitorManager._perform_health_check
perform_health_check(stats_ok) ==
    IF ~monitor
    THEN /\ status' = "error"
         /\ errors' = IF errors < MaxErrors THEN errors + 1 ELSE errors
    ELSE IF ~stats_ok
    THEN /\ status' = "error"
         /\ UNCHANGED errors
    ELSE /\ errors' = IF errors > errors_kept THEN errors_kept ELSE errors
         /\ status' = IF is_running /\ Live(mon, monitor_task)
                      THEN "healthy" ELSE "degraded"

\* _health_check_loop at the top of its loop (first run, or after sleep(10))
HealthRun(t, stats_ok) ==
    /\ health[t].st \in {"ready", "sleeping"} /\ ~health[t].cancel
    /\ IF ~is_running
       THEN /\ health' = [health EXCEPT ![t] = DoneTask]
            /\ UNCHANGED <<status, errors>>
       ELSE /\ perform_health_check(stats_ok)
            /\ health' = [health EXCEPT ![t].st = "sleeping"]
    /\ UNCHANGED <<is_running, restarts, restart_count, since_restart, monitor,
                   monitor_task, health_check_task, mon, calls>>
    /\ restart_ret' = "none"
    /\ UNCHANGED start_kept
    /\ UNCHANGED notMgr

\* CancelledError reaches a _health_check_loop task
HealthCancelled(t) ==
    /\ health[t].cancel /\ health[t].st \in {"ready", "sleeping"}
    /\ health' = [health EXCEPT ![t] = DoneTask]
    /\ UNCHANGED <<is_running, status, errors, restarts, restart_count, since_restart,
                   monitor, monitor_task, health_check_task, mon, calls>>
    /\ restart_ret' = "none"
    /\ UNCHANGED start_kept
    /\ UNCHANGED notMgr

\* Time passes: datetime.now() - last_restart_time grows (kept up to the cooldown)
Tick ==
    /\ since_restart # NoTime /\ since_restart < restart_cooldown
    /\ since_restart' = IF since_restart + TickSeconds >= restart_cooldown
                        THEN restart_cooldown ELSE since_restart + TickSeconds
    /\ UNCHANGED <<is_running, status, errors, restarts, restart_count, monitor,
                   monitor_task, health_check_task, mon, health, calls>>
    /\ restart_ret' = "none"
    /\ UNCHANGED start_kept
    /\ UNCHANGED notMgr

----------------------------------------------------------------------------
(* UnifiedSessionMonitor *)

MaxSourceLines == 5

\* Sizes and offsets are counted in lines; line k of the source file is the
\* k-th line its writer appended.
UmStart ==
    /\ source_file = << >>
    /\ unified_file = << >>
    /\ last_processed = 0
    /\ current_size = 0
    /\ poll_pc = "sleep"

\* The terminal session's writer, another process, appends a line
WriterAppend ==
    /\ Len(source_file) < MaxSourceLines
    /\ source_file' = Append(source_file, Len(source_file) + 1)
    /\ UNCHANGED <<unified_file, last_processed, current_size, poll_pc>>
    /\ UNCHANGED notUm

\* monitor_and_unify after its sleep: stat() of the file and the comparison
\* with last_processed
PollStat ==
    /\ poll_pc = "sleep"
    /\ current_size' = Len(source_file)
    /\ poll_pc' = IF Len(source_file) > last_processed THEN "read" ELSE "sleep"
    /\ UNCHANGED <<source_file, unified_file, last_processed>>
    /\ UNCHANGED notUm

\* f.seek(last_size); f.read(): the file from the offset to its end
new_content == SubSeq(source_file, last_processed + 1, Len(source_file))

\* monitor_and_unify once the file has grown: read from last_processed to the
\* end of the file, append that to the unified file, keep the size stat() gave
PollRead ==
    /\ poll_pc = "read"
    /\ unified_file' = unified_file \o new_content
    /\ last_processed' = current_size
    /\ poll_pc' = "sleep"
    /\ UNCHANGED <<source_file, current_size>>
    /\ UNCHANGED notUm

----------------------------------------------------------------------------
(* The monitor as the manager runs it *)

MaxUnifiedLines == 2

\* One pass of the loop of monitor_and_unify in the current _run_monitor
\* task, with no append of the writer between its stat() and its read().
\* A task whose cancellation is pending wakes from its sleep with
\* CancelledError and does not poll.
ManagedPoll ==
    /\ Live(mon, monitor_task)
    /\ mon[monitor_task].st = "polling" /\ ~mon[monitor_task].cancel
    /\ Len(source_file) > last_processed
    /\ Len(unified_file) + Len(new_content) <= MaxUnifiedLines
    /\ current_size' = Len(source_file)
    /\ unified_file' = unified_file \o new_content
    /\ last_processed' = Len(source_file)
    /\ UNCHANGED <<source_file, poll_pc>>
    /\ UNCHANGED notUm

----------------------------------------------------------------------------
(* Specifications *)

ArbIdle ==
    /\ arb_op = "none"
    /\ data = NoRecord
    /\ file_path = WebFilePath
    /\ verdict = NoVerdict
    /\ flagged = FALSE
    /\ ret = FALSE
    /\ terminal_dir = [s \in TermStems |-> <<>>]
    /\ terminal_exists \in {{}, {T1}}
    /\ blocked_writes = 0
    /\ redirected_sessions = {}

InitArb == ArbStart /\ StoreStart /\ MgrStart /\ UmStart /\ SwStart /\ CuStart /\ RdStart /\ ApiStart

NextArb ==
    \/ \E d \in Records : Classify(d)
    \/ \E path \in FilePaths, d \in Records : intercept_and_redirect(path, d)

SpecArb == InitArb /\ [][NextArb]_vars

InitStore == ArbIdle /\ StoreStartFiles /\ MgrStart /\ UmStart /\ SwStart /\ CuStart /\ RdStart /\ ApiStart

NextStore ==
    \/ \E s \in StoreIds, m \in Messages : sm_write_message(s, m)
    \/ \E s \in StoreIds, m \in Messages : ism_write_message(s, m)
    \/ \E s \in StoreIds : clean_unified_messages(s)
    \/ clean_file
    \/ monitor_unification_attempts
    \/ cleanup_unified_file

SpecStore == InitStore /\ [][NextStore]_vars

ArbQuiet == ArbIdle /\ terminal_exists = {}

InitSweep == ArbQuiet /\ StoreStartFiles /\ MgrStart /\ UmStart /\ SwStart /\ CuStart /\ RdStart /\ ApiStart

NextSweep ==
    \/ \E kind \in SweepKinds, s \in PROTECTED_SESSIONS : SweepRead(kind, s)
    \/ \E s \in PROTECTED_SESSIONS : OtherWriterAppend(s)
    \/ SweepRewrite

SpecSweep == InitSweep /\ [][NextSweep]_vars

InitRead ==
    /\ ArbQuiet /\ ReadStartFiles /\ MgrStart /\ UmStart /\ SwStart /\ CuStart
    /\ RdStart /\ ApiStart

NextRead ==
    \/ \E s \in ReadIds, m \in ReadMessages : sm_write_message(s, m)
    \/ \E s \in ReadIds, m \in ReadMessages : ism_write_message(s, m)
    \/ \E s \in ReadIds : sm_read_session(s)
    \/ \E s \in ReadIds : ism_read_session_messages(s)
    \/ get_latest_messages

SpecRead == InitRead /\ [][NextRead]_vars

InitConsol ==
    /\ ArbQuiet /\ ConsolStartFiles /\ MgrStart /\ UmStart /\ SwStart /\ CuStart
    /\ RdStart /\ ApiStart

NextConsol ==
    \/ \E s \in StoreIds, m \in ConsolMessages : sm_write_message(s, m)
    \/ \E s \in StoreIds, m \in ConsolMessages : ism_write_message(s, m)
    \/ initial_sync
    \/ clean_existing_files
    \/ \E source_jsonl \in StoreIds \ {UNIFIED_WEB_ID} : force_consolidate_file(source_jsonl)

SpecConsol == InitConsol /\ [][NextConsol]_vars

InitChat ==
    /\ ArbQuiet /\ StoreStart /\ MgrStart /\ UmStart /\ SwStart /\ CuStart
    /\ RdStart /\ ApiStart

NextChat ==
    \/ \E session_id \in ChatIds : send_message(session_id)
    \/ HandlerProcessing
    \/ HandlerCreateFails
    \/ \E type \in ContentTypes : HandlerContent(type)
    \/ \E sdk \in ChatIds \cup {OTHER_SESSION} : HandlerResult(sdk)
    \/ HandlerError
    \/ HandlerEnds
    \/ GenerateFinally

SpecChat == InitChat /\ [][NextChat]_vars

InitDelete ==
    /\ ArbQuiet /\ StoreStart /\ MgrStart /\ UmStart /\ SwStart /\ CuStart
    /\ RdStart /\ ApiStart

NextDelete ==
    \/ \E s \in ApiIds : handler_create_session(s)
    \/ \E s \in ApiIds : server_delete_session(s)
    \/ \E s \in ApiIds, u \in UserIds : routes_create_session(s, u)
    \/ \E s \in ApiIds, token \in ApiIds \cup {Absent} : routes_delete_session(s, token)

SpecDelete == InitDelete /\ [][NextDelete]_vars

InitHandler ==
    /\ ArbQuiet /\ StoreStart /\ MgrStart /\ UmStart /\ SwStart /\ CuStart
    /\ RdStart /\ ApiStart

NextHandler ==
    \/ \E op \in HandlerOps, s \in HandlerIds, config \in Configs : HandlerCall(op, s, config)
    \/ \E p \in HandlerCallIds : DisconnectDone(p)
    \/ \E p \in HandlerCallIds, ok \in BOOLEAN : ConnectDone(p, ok)
    \/ \E s \in HandlerIds : RecordUsage(s)

SpecHandler == InitHandler /\ [][NextHandler]_vars

InitBuffer == ArbQuiet /\ StoreStart /\ MgrStart /\ UmStart /\ SwStart /\ CuStart /\ RdStart /\ ApiStart

\* One send_message call from its query to its end
NextBuffer ==
    \/ \E length \in TextLens, interval_passed \in BOOLEAN : ReceiveText(length, interval_passed)
    \/ ReceiveToolUse
    \/ ReceiveToolResult
    \/ ReceiveResult
    \/ ReceiveEnds
    \/ ReceiveRaises

SpecBuffer == InitBuffer /\ [][NextBuffer]_vars

InitRealtime == ArbQuiet /\ StoreStart /\ MgrStart /\ UmStart /\ SwStart /\ CuStart /\ RdStart /\ ApiStart

\* One GET /api/realtime/stream and the sessions that write to the project
NextRealtime ==
    \/ \E f \in RtFiles, type \in LineTypes : RtAppend(f, type)
    \/ monitor_latest_jsonl

SpecRealtime == InitRealtime /\ [][NextRealtime]_vars

InitMgr == ArbQuiet /\ StoreStart /\ MgrStart /\ UmStart /\ SwStart /\ CuStart /\ RdStart /\ ApiStart

\* The manager with its clients, in an environment where monitor_and_unify
\* and get_stats do not raise
NextMgr ==
    \/ ClientStart
    \/ ClientStop
    \/ ClientRestart
    \/ \E p \in CallIds : StopResume(p)
    \/ \E p \in CallIds : RestartWake(p)
    \/ \E t \in TaskIds : MonitorRun(t)
    \/ \E t \in TaskIds : MonitorCancelled(t)
    \/ \E t \in TaskIds : HealthRun(t, TRUE)
    \/ \E t \in TaskIds : HealthCancelled(t)
    \/ Tick

SpecMgr == InitMgr /\ [][NextMgr]_vars

\* The manager with its clients, the monitor it runs and the writer of the
\* terminal session file
NextMonitored ==
    \/ ClientStart
    \/ ClientStop
    \/ ClientRestart
    \/ \E p \in CallIds : StopResume(p)
    \/ \E p \in CallIds : RestartWake(p)
    \/ \E t \in TaskIds : MonitorRun(t)
    \/ \E t \in TaskIds : MonitorCancelled(t)
    \/ \E t \in TaskIds : HealthCancelled(t)
    \/ WriterAppend
    \/ ManagedPoll

SpecMonitored == InitMgr /\ [][NextMonitored]_vars

\* The manager left to itself after the start() of init_monitor_manager, in
\* an environment where monitor_and_unify and get_stats may raise
NextSup ==
    \/ ClientStart
    \/ \E p \in CallIds : AutoRestartRun(p)
    \/ \E p \in CallIds : StopResume(p)
    \/ \E p \in CallIds : RestartWake(p)
    \/ \E t \in TaskIds : MonitorRun(t)
    \/ \E t \in TaskIds : MonitorError(t)
    \/ \E t \in TaskIds, stats_ok \in BOOLEAN : HealthRun(t, stats_ok)
    \/ \E t \in TaskIds : HealthCancelled(t)
    \/ Tick

\* The event loop runs every task that is ready and fires every timer
SupFairness ==
    /\ \A p \in CallIds : WF_vars(AutoRestartRun(p))
    /\ \A p \in CallIds : WF_vars(StopResume(p))
    /\ \A p \in CallIds : WF_vars(RestartWake(p))
    /\ \A t \in TaskIds : WF_vars(MonitorRun(t) \/ MonitorError(t))
    /\ \A t \in TaskIds : WF_vars(\E stats_ok \in BOOLEAN : HealthRun(t, stats_ok))
    /\ \A t \in TaskIds : WF_vars(HealthCancelled(t))
    /\ WF_vars(Tick)

SpecMgrFair == InitMgr /\ [][NextSup]_vars /\ SupFairness

----------------------------------------------------------------------------
(* Claims about the sweeps and the classifiers *)

\* The write arbitrator's classification as the specification states it: a
\* record is foreign when it has originalSession, unified_at or the source
\* "claude_code_auto".
ClaimForeign(l) ==
    PyTruthy(l.originalSession) \/ PyTruthy(l.unified_at) \/ l.source = "claude_code_auto"

OnlyRecords(lines) == \A i \in 1..Len(lines) : lines[i].kind = "json"

NativeLinesOf(lines) == SelectSeq(lines, LAMBDA l : ~ClaimForeign(l))

\* The session files the store call just made swept
SweptBy(op) ==
    CASE op.name = "clean_unified_messages" ->
            IF is_protected(op.session_id) THEN {op.session_id} ELSE {}
      [] op.name = "clean_file" -> {WEB_SESSION}
      [] op.name = "monitor_unification_attempts" -> PROTECTED_SESSIONS
      [] OTHER -> {}

\* C1: a sweep of a protected session file that holds only native and foreign
\* records leaves exactly its native lines, unchanged and in their order,
\* wherever the foreign lines sit (the sweeps run with no other writer).
C1_SweepLeavesExactlyNativeLines ==
    [][\A s \in SweptBy(st_op') \cap on_disk :
          (now' = now + 1 /\ OnlyRecords(files[s]))
             => files'[s] = NativeLinesOf(files[s])]_vars

\* C2: every classifier answers foreign for a record whose originalSession is
\* set, whatever its other fields and whatever files exist.
C2_OriginalSessionIsForeign ==
    (arb_op = "classify" /\ PyTruthy(data.originalSession))
       => (verdict.interceptor /\ verdict.cleanup /\ verdict.blocker /\ verdict.isolated)

\* C3: every classifier answers native for a record with no originalSession,
\* no unified_at and a source other than "claude_code_auto", whatever its
\* sessionId.
C3_NoMarkerIsNative ==
    (/\ arb_op = "classify"
     /\ ~HasKey(data.originalSession)
     /\ ~HasKey(data.unified_at)
     /\ data.source # "claude_code_auto")
       => (/\ ~verdict.interceptor /\ ~verdict.cleanup
           /\ ~verdict.blocker /\ ~verdict.isolated)

\* C4: a write_message to a protected session of a record that carries
\* originalSession or unified_at returns False and changes neither the
\* session files nor the registries (message_count, last activity).
C4_UnifiedWriteIsBlocked ==
    [][(/\ st_op'.name \in {"sm_write_message", "ism_write_message"}
        /\ now' = now + 1
        /\ is_protected(st_op'.session_id)
        /\ (PyTruthy(st_op'.message.originalSession) \/ PyTruthy(st_op'.message.unified_at)))
          => (/\ st_op'.result = RFalse
              /\ files' = files
              /\ on_disk' = on_disk
              /\ sessions' = sessions
              /\ active_sessions' = active_sessions)]_vars

\* A blocked write by each path's guard: SessionManager refused a record
\* carrying unified_at on the web session, whose file holds lines.
C4_Witness ==
    /\ st_op.name = "sm_write_message"
    /\ st_op.session_id = WEB_SESSION
    /\ PyTruthy(st_op.message.unified_at)
    /\ st_op.result = RFalse
    /\ files[WEB_SESSION] # <<>>
    /\ now = 1

\* C5: intercept_and_redirect returns True for exactly the records
\* should_block_write flags, and then the record has been appended to the
\* terminal file of its originalSession (of its sessionId when it has none).
C5_FlaggedWriteIsRedirected ==
    arb_op = "intercept" =>
       /\ ret = flagged
       /\ flagged =>
             LET origin == IF HasKey(data.originalSession)
                           THEN data.originalSession ELSE data.sessionId
                 stem == CleanId(origin)
             IN /\ stem \in TermStems
                /\ terminal_dir[stem] # <<>>
                /\ terminal_dir[stem][Len(terminal_dir[stem])] = data

InitUm == ArbQuiet /\ StoreStart /\ MgrStart /\ UmStart /\ SwStart /\ CuStart /\ RdStart /\ ApiStart

NextUm ==
    \/ WriterAppend
    \/ PollStat
    \/ PollRead

SpecUm == InitUm /\ [][NextUm]_vars

----------------------------------------------------------------------------
(* Claims about MonitorManager *)

LiveMonitor == Live(mon, monitor_task)

\* C6: once restart_count has reached max_restart_attempts, a restart() that
\* is entered neither stops nor starts the monitor and leaves the status
\* "failed".
C6_RestartAtLimitFails ==
    (restart_ret # "none" /\ restart_count >= max_restart_attempts)
        => (restart_ret # "stopping" /\ status = "failed")

StartOrStopStep ==
    \/ ClientStart
    \/ ClientStop
    \/ \E p \in CallIds : StopResume(p)
    \/ \E p \in CallIds : RestartWake(p)

\* C7: a status of "failed" stays "failed" over every step that is not a
\* step of start() or of stop(); no health check changes it.
C7_FailedIsTerminal ==
    [][(status = "failed" /\ ~StartOrStopStep) => status' = "failed"]_vars

GaveUp == \E p \in CallIds : calls[p].op = "restart" /\ calls[p].pc = "entry"

\* C8: after the monitor loop has given up on max_consecutive_errors failures
\* in a row, the manager is eventually out of the state where it is running
\* with no live monitor task and a status other than "failed".
C8_GivenUpMonitorIsRecovered ==
    GaveUp ~> (~is_running \/ LiveMonitor \/ status = "failed")

\* C9: restart_count never exceeds max_restart_attempts.
C9_RestartCountBounded == restart_count <= max_restart_attempts

----------------------------------------------------------------------------
(* Claims about UnifiedSessionMonitor *)

Copies(line) == Cardinality({i \in 1..Len(unified_file) : unified_file[i] = line})

\* C10: every line appended to the source file is in the unified file once
\* when the monitor has processed it, and never more than once.
C10_EachLineCopiedOnce ==
    \A k \in 1..Len(source_file) :
        /\ Copies(source_file[k]) <= 1
        /\ k <= last_processed => Copies(source_file[k]) = 1

----------------------------------------------------------------------------
(* Claims about sweeps beside other writers *)

InFile(line, lines) == \E i \in 1..Len(lines) : lines[i] = line

CountIn(line, lines) == Cardinality({i \in 1..Len(lines) : lines[i] = line})

\* C11: a sweep is not atomic with respect to appends: when another process
\* appends a line after the sweep read the file and the sweep then rewrites
\* it, the rewritten file does not hold that line: of the copies of the line
\* the file held, every one appended since the read is gone.
C11_LateLineIsLostByRewrite ==
    [][(/\ sw_pc = "read" /\ sw_pc' = "done"
        /\ sw_late # << >>
        /\ sweep_rewrites(sw_kind, sw_lines))
          => CountIn(Late, files'[sw_session])
                <= CountIn(Late, files[sw_session]) - Len(sw_late)]_vars

\* clean_unified_messages, which keeps native lines, has rewritten the web
\* file after a native line was appended to it since its read, and the file
\* does not hold the line.
C11_Witness ==
    /\ sw_pc = "done"
    /\ sw_kind = "clean_unified_messages"
    /\ sw_session = WEB_SESSION
    /\ sw_late = <<Late>>
    /\ sweep_rewrites(sw_kind, sw_lines)
    /\ ~InFile(Late, files[WEB_SESSION])
    /\ ~ClaimForeign(Late)

----------------------------------------------------------------------------
(* Claims about malformed lines and reads *)

MalformedOf(lines) == SelectSeq(lines, LAMBDA l : l.kind = "bad")

HoldsForeign(lines) ==
    \E i \in 1..Len(lines) : lines[i].kind = "json" /\ ClaimForeign(lines[i])

\* The session files the store call just made swept, for the sweeps that are
\* to keep malformed lines
SweptKeepingMalformed(op) ==
    CASE op.name = "clean_unified_messages" ->
            IF is_protected(op.session_id) THEN {op.session_id} ELSE {}
      [] op.name = "cleanup_unified_file" -> {WEB_SESSION}
      [] op.name = "monitor_unification_attempts" -> PROTECTED_SESSIONS
      [] OTHER -> {}

\* C12: after cleanup_unified_file, clean_unified_messages or a tick of
\* monitor_unification_attempts on a file that holds malformed lines, the
\* file holds those malformed lines, unchanged and in their order, and no
\* foreign line.
C12_SweepKeepsMalformedLines ==
    [][\A s \in SweptKeepingMalformed(st_op') \cap on_disk :
          (now' = now + 1 /\ MalformedOf(files[s]) # << >>)
             => (/\ MalformedOf(files'[s]) = MalformedOf(files[s])
                 /\ ~HoldsForeign(files'[s]))]_vars


ValidOf(lines) == SelectSeq(lines, LAMBDA l : l.kind = "json")

\* What a read is to return for a file: its valid records in file order (for
\* get_latest_messages, in the form it gives them)
ValidRecords(name, lines) ==
    IF name = "get_latest_messages" THEN frontend_messages(ValidOf(lines))
    ELSE LoadAll(ValidOf(lines))

\* C13: a read of a file that holds a line that is not valid JSON among
\* valid lines, none of them foreign, returns exactly the valid records in
\* file order.
C13_ReadSkipsInvalidLine ==
    (/\ rd_op.name \in {"sm_read_session", "ism_read_session_messages",
                        "get_latest_messages"}
     /\ rd_op.session_id \in on_disk
     /\ rd_now = now
     /\ MalformedOf(files[rd_op.session_id]) # << >>
     /\ ~HoldsForeign(files[rd_op.session_id]))
       => rd_result = ValidRecords(rd_op.name, files[rd_op.session_id])


\* The file holds nothing but lines SessionManager.write_message appended:
\* each carries the timestamp of its write
OnlySmWritten(lines) ==
    \A i \in 1..Len(lines) : lines[i].kind = "json" /\ lines[i].timestamp # NoTime

InWriteOrder(messages) ==
    \A i, j \in 1..Len(messages) : i < j => messages[i].timestamp < messages[j].timestamp

\* C14: after N write_message calls of SessionManager that returned True on
\* one session, and nothing else written to it, read_session returns exactly
\* those N messages in the order written.
C14_ReadReturnsWritesInOrder ==
    (/\ rd_op.name = "sm_read_session"
     /\ rd_now = now
     /\ OnlySmWritten(files[rd_op.session_id]))
       => (/\ rd_result = LoadAll(files[rd_op.session_id])
           /\ InWriteOrder(rd_result)
           /\ rd_op.session_id \in DOMAIN sessions
                 => Len(rd_result) = sessions[rd_op.session_id].message_count)

C14_Witness ==
    /\ rd_op = [name |-> "sm_read_session", session_id |-> OTHER_SESSION]
    /\ rd_now = now
    /\ OnlySmWritten(files[OTHER_SESSION])
    /\ Len(rd_result) = 2
    /\ rd_result[1].content = "hi" /\ rd_result[2].content = "hey"
    /\ st_op.name = "sm_write_message" /\ st_op.result = RTrue

----------------------------------------------------------------------------
(* Claims about consolidation *)

IsPrefix(a, b) == Len(a) <= Len(b) /\ SubSeq(b, 1, Len(a)) = a

\* C16: session files are append-only: no store or consolidation operation
\* alters, reorders or removes a line of a session file (no sweep runs here,
\* so no line is classified foreign): every step leaves each file a prefix of
\* what it becomes.
C16_FilesAreAppendOnly ==
    [][\A s \in StoreIds : IsPrefix(files[s], files'[s])]_vars


----------------------------------------------------------------------------
(* Claims about the manager's status and its errors list *)

Assessed == {"healthy", "degraded", "error"}

\* A stop() call returns
StopCompletes ==
    \/ ClientStop /\ calls' = calls
    \/ \E p \in CallIds : /\ calls[p].op = "stop"
                          /\ StopResume(p)
                          /\ calls'[p] = IdleCall

\* C17: the status moves along stopped -> running -> (healthy | degraded |
\* error) -> stopped: it leaves "stopped" only for "running", by a start()
\* that sets is_running; it becomes healthy, degraded or error only while
\* the manager is running and from running, healthy, degraded or error; when
\* a stop() returns it is "stopped" and is_running is false.
C17_StatusMachine ==
    [][/\ (status = "stopped" /\ status' # "stopped")
             => (status' = "running" /\ ~is_running /\ is_running')
       /\ (status' \in Assessed /\ status' # status)
             => (is_running /\ status \in Assessed \cup {"running"})
       /\ StopCompletes => (status' = "stopped" /\ ~is_running')]_vars


\* C18: the errors list of the health snapshot never holds more than the
\* last errors_kept errors.
C18_ErrorsAreLastTen == errors <= errors_kept


----------------------------------------------------------------------------
(* Claims about the API *)

TypeCount(type) == Cardinality({i \in 1..Len(sse_events) : sse_events[i].type = type})

\* C19: a response stream of /api/chat sends "done" once, as its last event:
\* no "done" is sent while the stream is open, a closed stream ends with its
\* only "done", and when an exception was raised exactly one "error" event
\* was sent, right before the "done".
C19_StreamEndsWithOneDone ==
    /\ sse_pc \in {"open", "raised"} => TypeCount("done") = 0
    /\ sse_pc = "closed"
          => (/\ TypeCount("done") = 1
              /\ sse_events[Len(sse_events)].type = "done"
              /\ sse_raised => (/\ TypeCount("error") = 1
                                /\ sse_events[Len(sse_events) - 1].type = "error"))

C19_Witness ==
    /\ sse_pc = "closed"
    /\ sse_raised
    /\ Len(sse_events) = 2
    /\ sse_events[1].type = "error"
    /\ sse_events[2] = Event("done", "unknown")

\* The registry a DELETE route looks its session up in
Registered(route, session_id) ==
    IF route = "server" THEN session_id \in clients
    ELSE session_id \in DOMAIN sessions_cache

\* C20: a DELETE of a session id that is not registered answers 404 and
\* changes no registry (the caller of the session routes bears the token of
\* the session it deletes).
C20_DeleteUnregisteredIs404 ==
    [][(/\ api_calls' = api_calls + 1
        /\ api_response'.route = "routes" => api_response'.token = api_response'.session_id
        /\ ~Registered(api_response'.route, api_response'.session_id))
          => (/\ api_response'.status = 404
              /\ UNCHANGED <<clients, handler_sessions, sessions_cache, user_sessions>>)]_vars


----------------------------------------------------------------------------
(* Claims about ClaudeHandler *)

\* C21: when update_session_config on a registered session has ended, by
\* returning True or by raising, the session is registered, its history is
\* the one it had when the call began, and its configuration is the new one
\* when the call returned True.
C21_UpdateKeepsHistory ==
    (ch_done.op = "update_session_config" /\ ch_done.outcome \in {"returned", "raised"})
       => (/\ ch_done.id \in DOMAIN ch_clients
           /\ ch_done.id \in DOMAIN ch_histories
           /\ ch_histories[ch_done.id] = ch_done.history
           /\ ch_done.outcome = "returned" => ch_configs[ch_done.id] = ch_done.config)

SameKeys ==
    /\ DOMAIN ch_clients = ch_active
    /\ DOMAIN ch_configs = ch_active
    /\ DOMAIN ch_histories = ch_active

\* C22: when create_session, destroy_session, clear_session or
\* update_session_config has returned, the four registries have the same
\* keys, and after destroy_session the session id is in none of them.
C22_RegistriesHaveSameKeys ==
    (/\ ch_done.op \in {"create_session", "destroy_session", "clear_session",
                        "update_session_config"}
     /\ ch_done.outcome \in {"returned", "false"})
       => (/\ SameKeys
           /\ ch_done.op = "destroy_session"
                 => (/\ ch_done.id \notin DOMAIN ch_clients
                     /\ ch_done.id \notin ch_active
                     /\ ch_done.id \notin DOMAIN ch_configs
                     /\ ch_done.id \notin DOMAIN ch_histories))

C22_Witness ==
    /\ ch_done.op = "destroy_session" /\ ch_done.outcome = "returned"
    /\ ch_done.id = WEB_SESSION
    /\ made = 2
    /\ OTHER_SESSION \in DOMAIN ch_clients
    /\ ch_histories[OTHER_SESSION] = MaxTokens
    /\ connected = {ch_clients[OTHER_SESSION]}

Registered_clients == {ch_clients[s] : s \in DOMAIN ch_clients}

\* C28: no connection is leaked: with no call in flight, every connected SDK
\* client is the one registered in clients for some session id.
C28_NoClientLeaked ==
    (\A p \in HandlerCallIds : ch_calls[p].pc = "idle")
       => connected \subseteq Registered_clients


----------------------------------------------------------------------------
(* Claims about writes of the isolated manager *)

\* C23: IsolatedSessionManager.write_message of a message with no
\* unification marker to a protected session returns True, appends the
\* message to the session's file and adds one to its message_count.
C23_PlainWriteIsProcessed ==
    [][(/\ now' = now + 1
        /\ st_op'.name = "ism_write_message"
        /\ is_protected(st_op'.session_id)
        /\ ~ClaimForeign(st_op'.message))
          => (/\ st_op'.result = RTrue
              /\ Len(files'[st_op'.session_id]) = Len(files[st_op'.session_id]) + 1
              /\ active_sessions'[st_op'.session_id].message_count
                    = active_sessions[st_op'.session_id].message_count + 1)]_vars


----------------------------------------------------------------------------
(* Claims about the manager's tasks *)

LiveMonitorTasks == {t \in TaskIds : Live(mon, t)}

\* C26: at most one _run_monitor task of MonitorManager is alive at any
\* time, over every interleaving of start(), stop(), restart() and the
\* automatic restarts at their awaits.
C26_OneMonitorTask == Cardinality(LiveMonitorTasks) <= 1


NoCallInFlight == \A p \in CallIds : calls[p].op = "idle"

\* C27: a start() is never lost: when start() returned True and no stop() or
\* restart() was invoked after it began, the manager ends (no call is in
\* flight any more) with is_running true and a live monitor task.
C27_StartIsNotLost ==
    (start_kept /\ NoCallInFlight) => (is_running /\ Live(mon, monitor_task))


----------------------------------------------------------------------------
(* Claims about the monitor as the manager runs it *)

\* C24: no monitor the API runs creates, modifies or deletes a session file:
\* the monitor that MonitorManager runs appends no line of a terminal session
\* to the web session file.
C24_MonitorsLeaveFilesAlone == [][unified_file' = unified_file]_vars

\* C25: across any number of restarts of the monitor each line of the
\* monitored session file is in the unified file at most once.
C25_RestartCopiesNothingAgain ==
    \A i, j \in 1..Len(unified_file) : unified_file[i] = unified_file[j] => i = j


----------------------------------------------------------------------------
(* Claims about the streams of text *)

FromLatest(line) == line.file = rt_latest

\* C29: the realtime stream emits the text of each assistant line appended
\* to the most recently modified file exactly once and in file order: once
\* it has polled after the last append, what it has sent of that file is the
\* assistant lines of the file, in their order.
C29_EachAssistantLineOnce ==
    (rt_synced /\ rt_latest # NoFile)
       => SelectSeq(rt_emitted, FromLatest) = AssistantLines(rt_files[rt_latest])

RECURSIVE TextBefore(_)
\* The text blocks of the assistant_text responses yielded before the k-th
TextBefore(k) ==
    IF k <= 1 THEN << >>
    ELSE TextBefore(k - 1) \o (IF yielded[k - 1].type = "assistant_text"
                               THEN yielded[k - 1].content ELSE << >>)

\* C30: send_message delivers buffered text without loss, duplication or
\* reordering: when a tool_use, result or error response is yielded, and at
\* the end of the stream, every text block received before has been yielded
\* once in an assistant_text response, in the order received.
C30_BufferedTextIsDelivered ==
    /\ \A k \in 1..Len(yielded) :
          yielded[k].type \in {"tool_use", "result", "error"}
             => TextBefore(k) = [i \in 1..yielded[k].seen |-> i]
    /\ buf_pc = "ended" => TextBefore(Len(yielded) + 1) = [i \in 1..received |-> i]

====
